---- MODULE Spec2Model ----
(***************************************************************************)
(* Model of svb2json.                                                      *)
(*                                                                         *)
(*  - merge_subtitles of src/svb2json/parser.py, as a state machine whose  *)
(*    actions are the branches of its two nested while loops;              *)
(*  - parse_timestamp and format_timestamp of parser.py, as operators on   *)
(*    character sequences and integers;                                    *)
(*  - parse_sbv of parser.py, one action per branch of its line loops;     *)
(*  - main of cli.py (svb2json) and of cli_txt.py (svb2txt), whose steps   *)
(*    run parse_sbv and merge_subtitles as sub-machines;                   *)
(*  - chunk_json_content of chunk2tokens.py, one action per branch of an   *)
(*    iteration of its for loops, and save_chunks, one action per file.    *)
(*                                                                         *)
(* Python lists are modelled as sequences; the cursor i keeps Python's     *)
(* 0-based value, so entries[i] of the source is At(entries, i) here.      *)
(* Strings are sequences of one-character strings, so that " ".join,       *)
(* strip, split and the timestamp pattern are modelled by what they do to  *)
(* the characters.                                                         *)
(***************************************************************************)
EXTENDS Integers, Sequences, FiniteSets, TLC

\* ------------------------------------------------------------------ bounds

\* Longest input sequence whose entries are ordered by start with end >= start.
MaxLen == 3
\* Longest input sequence of arbitrary entries (unsorted, end < start allowed).
MaxLenAny == 2
\* Largest timestamp tick: seconds mode uses 0..MaxTime, milliseconds mode
\* uses the third-of-a-second grid (1000 * k) \div 3 for k in 0..MaxTime.
MaxTime == 3
\* Largest target duration (the -m SECONDS argument).
MaxDur == 3
\* Largest target duration of the threshold specification.
MaxTarget == 12
\* Largest hours field of the timestamps written for parse_timestamp and
\* largest hours of the values given to format_timestamp.
MaxHour == 1
\* Largest number of lines of an SBV text given to parse_sbv.
MaxLines == 4
\* Largest number of members of a JSON array, or of pairs of a JSON object,
\* given to chunk_json_content.
MaxItems == 3
\* Largest token count a text can have, and largest max_tokens.
MaxTokens == 2
\* Largest number of chunks given to save_chunks.
MaxChunks == 15

\* ------------------------------------------------------------ pure helpers

\* seq[k] of Python (0-based) on a TLA+ sequence.
At(seq, k) == seq[k + 1]

\* Python's round(n / m) for integers n >= 0, m > 0: nearest integer, a tie
\* going to the even neighbour.
RoundDiv(n, m) ==
    LET q == n \div m
        r == n % m
    IN  IF 2 * r < m THEN q
        ELSE IF 2 * r > m THEN q + 1
        ELSE IF q % 2 = 0 THEN q ELSE q + 1

\* duration of merge_subtitles: the target in the unit of the entries.
Duration(ds, us) == IF us THEN ds ELSE ds * 1000

\* Bug variant: the threshold is always computed on milliseconds, whatever
\* the unit of the entries.
MinDurationThreshold_AlwaysMs(ds, us) == RoundDiv(2 * ds * 1000, 3)

\* Bug variant: the milliseconds threshold is 1000 times the seconds one.
MinDurationThreshold_FromSeconds(ds, us) ==
    IF us THEN RoundDiv(2 * ds, 3) ELSE 1000 * RoundDiv(2 * ds, 3)

\* Bug variant: 3/2 of the duration in place of 2/3.
MinDurationThreshold_ThreeHalves(ds, us) ==
    IF us THEN RoundDiv(3 * ds, 2) ELSE RoundDiv(3 * ds * 1000, 2)

\* min_duration_threshold of merge_subtitles.
MinDurationThreshold(ds, us) ==
    IF us THEN RoundDiv(2 * ds, 3) ELSE RoundDiv(2 * ds * 1000, 3)

\* " ".join(texts): the texts in order with one space between neighbours.
RECURSIVE JoinSpace(_)
JoinSpace(texts) ==
    IF texts = << >> THEN << >>
    ELSE IF Len(texts) = 1 THEN texts[1]
    ELSE texts[1] \o << " " >> \o JoinSpace(Tail(texts))

\* The dict literal appended to merged.
MakeEntry(id, start, end, text) ==
    [id |-> id, start |-> start, end |-> end, text |-> text]

\* --------------------------------------------------------- timestamp codec

\* The decimal digits; Digits[d + 1] is the character of digit d.
Digits == << "0", "1", "2", "3", "4", "5", "6", "7", "8", "9" >>

\* \d of the pattern.
IsDigit(c) == \E d \in 1 .. 10 : Digits[d] = c

DigitValue(c) == (CHOOSE d \in 1 .. 10 : Digits[d] = c) - 1

\* int(group) on a group of digits.
RECURSIVE IntOf(_)
IntOf(s) ==
    IF s = << >> THEN 0
    ELSE 10 * IntOf(SubSeq(s, 1, Len(s) - 1)) + DigitValue(s[Len(s)])

\* str(n) for n >= 0.
RECURSIVE StrOf(_)
StrOf(n) ==
    IF n < 10 THEN << Digits[n + 1] >>
    ELSE StrOf(n \div 10) \o << Digits[(n % 10) + 1] >>

\* The format specs :02d and :03d: zeros on the left up to the width.
RECURSIVE ZeroPad(_, _)
ZeroPad(s, width) == IF Len(s) >= width THEN s ELSE ZeroPad(<< "0" >> \o s, width)

\* The characters str.strip() removes.
Whitespace == { " ", "\t", "\r", "\n" }

RECURSIVE LStrip(_)
LStrip(s) ==
    IF s # << >> /\ s[1] \in Whitespace THEN LStrip(Tail(s)) ELSE s

RECURSIVE RStrip(_)
RStrip(s) ==
    IF s # << >> /\ s[Len(s)] \in Whitespace
    THEN RStrip(SubSeq(s, 1, Len(s) - 1))
    ELSE s

\* str.strip()
Strip(s) == RStrip(LStrip(s))

\* Number of digits s begins with: what a greedy \d+ takes.
RECURSIVE DigitRun(_)
DigitRun(s) ==
    IF s # << >> /\ IsDigit(s[1]) THEN 1 + DigitRun(Tail(s)) ELSE 0

\* s[from .. from + 9] is :DD:DD.DDD
MatchTail(s, from) ==
    /\ Len(s) >= from + 9
    /\ s[from] = ":"
    /\ IsDigit(s[from + 1]) /\ IsDigit(s[from + 2])
    /\ s[from + 3] = ":"
    /\ IsDigit(s[from + 4]) /\ IsDigit(s[from + 5])
    /\ s[from + 6] = "."
    /\ IsDigit(s[from + 7]) /\ IsDigit(s[from + 8]) /\ IsDigit(s[from + 9])

\* The groups (\d+):(\d{2}):(\d{2})\.(\d{3}) of one side, the hours being the
\* first h characters of s.
SideGroups(s, h) ==
    << SubSeq(s, 1, h), SubSeq(s, h + 2, h + 3),
       SubSeq(s, h + 5, h + 6), SubSeq(s, h + 8, h + 10) >>

\* TIMESTAMP_PATTERN.match(s): the eight groups, or << >> for no match. The
\* pattern is anchored at both ends; \d+ is followed by ":", which is no
\* digit, so the hours are the whole run of leading digits.
TIMESTAMP_PATTERN(s) ==
    LET h1 == DigitRun(s)
        rest == SubSeq(s, h1 + 12, Len(s))
        h2 == DigitRun(rest)
    IN  IF /\ h1 >= 1
           /\ MatchTail(s, h1 + 1)
           /\ Len(s) >= h1 + 11
           /\ s[h1 + 11] = ","
           /\ h2 >= 1
           /\ MatchTail(rest, h2 + 1)
           /\ Len(rest) = h2 + 10
        THEN SideGroups(s, h1) \o SideGroups(rest, h2)
        ELSE << >>

\* What a call gives back: a value, or a raised ValueError.
Returned(value) == [raised |-> FALSE, value |-> value]
ValueError == [raised |-> TRUE, value |-> << >>]

\* ((h * 3600 + m * 60 + s) * 1000 + ms) of four groups.
Millis(g, k) ==
    (IntOf(g[k]) * 3600 + IntOf(g[k + 1]) * 60 + IntOf(g[k + 2])) * 1000
        + IntOf(g[k + 3])

\* Bug variant: minutes and seconds above 59 are rejected.
parse_timestamp_RangeChecked(timestamp) ==
    LET match == TIMESTAMP_PATTERN(Strip(timestamp))
    IN  IF match = << >> \/ IntOf(match[2]) > 59 \/ IntOf(match[3]) > 59
           \/ IntOf(match[6]) > 59 \/ IntOf(match[7]) > 59
        THEN ValueError
        ELSE Returned(<< Millis(match, 1), Millis(match, 5) >>)

\* Bug variant: a timestamp whose end is before its start is rejected.
parse_timestamp_EndAfterStart(timestamp) ==
    LET match == TIMESTAMP_PATTERN(Strip(timestamp))
    IN  IF match = << >> \/ Millis(match, 5) < Millis(match, 1)
        THEN ValueError
        ELSE Returned(<< Millis(match, 1), Millis(match, 5) >>)

\* parse_timestamp(timestamp): (start_ms, end_ms), or ValueError.
parse_timestamp(timestamp) ==
    LET match == TIMESTAMP_PATTERN(Strip(timestamp))
    IN  IF match = << >> THEN ValueError
        ELSE Returned(<< Millis(match, 1), Millis(match, 5) >>)

\* The format kinds format_timestamp knows.
FormatTypes == { "Mi", "SS", "MM", "HH:MM", "HH:MM:SS", "HH:MM:SS.Mi" }

\* A formatted timestamp: an int for Mi, SS and MM, a str for the others.
\* The field that does not apply is 0 or empty.
IntValue(n) == [type |-> "int", int |-> n, str |-> << >>]
StrValue(s) == [type |-> "str", int |-> 0, str |-> s]

\* Bug variant: the minutes of HH:MM are truncated, not rounded.
total_minutes_Floor(ms) == ms \div 60000

\* total_minutes = round(ms / 60000)
total_minutes(ms) == RoundDiv(ms, 60000)

\* format_timestamp(ms, format_type) for ms >= 0. total_seconds = ms / 1000
\* is kept in milliseconds: total_seconds // 3600 is ms \div 3600000,
\* (total_seconds % 3600) // 60 is (ms % 3600000) \div 60000, and
\* total_seconds % 60 truncated is (ms % 60000) \div 1000.
format_timestamp(ms, format_type) ==
    LET hours == ms \div 3600000
        minutes == (ms % 3600000) \div 60000
        seconds == (ms % 60000) \div 1000
        milliseconds == ms % 1000
        colon == << ":" >>
    IN  IF format_type = "Mi" THEN Returned(IntValue(ms))
        ELSE IF format_type = "SS" THEN Returned(IntValue(RoundDiv(ms, 1000)))
        ELSE IF format_type = "MM" THEN Returned(IntValue(RoundDiv(ms, 60000)))
        ELSE IF format_type = "HH:MM" THEN
            Returned(StrValue(ZeroPad(StrOf(total_minutes(ms) \div 60), 2) \o colon
                              \o ZeroPad(StrOf(total_minutes(ms) % 60), 2)))
        ELSE IF format_type = "HH:MM:SS" THEN
            Returned(StrValue(ZeroPad(StrOf(hours), 2) \o colon
                              \o ZeroPad(StrOf(minutes), 2) \o colon
                              \o ZeroPad(StrOf(seconds), 2)))
        ELSE IF format_type = "HH:MM:SS.Mi" THEN
            Returned(StrValue(ZeroPad(StrOf(hours), 2) \o colon
                              \o ZeroPad(StrOf(minutes), 2) \o colon
                              \o ZeroPad(StrOf(seconds), 2) \o << "." >>
                              \o ZeroPad(StrOf(milliseconds), 3)))
        ELSE ValueError

\* ------------------------------------------------------------------ inputs

\* Timestamps an input entry may carry in each unit mode.
Times(us) ==
    IF us THEN 0 .. MaxTime ELSE { (1000 * k) \div 3 : k \in 0 .. MaxTime }

\* Texts by position: one distinct word each, or a mix of a two-word text, an
\* empty text and a one-word text.
WordsPlain == << << "a" >>, << "b" >>, << "c" >>, << "d" >> >>
WordsMixed == << << "x", " ", "y" >>, << >>, << "z" >> >>

\* What an input carries besides its times: ids are stride * position
\* (stride 1 gives the parser's 1..n, stride 5 the ids 5, 10, ... of
\* test_renumber_ids) and the text of position k is texts[k], cyclically.
Labelings ==
    { [stride |-> 1, texts |-> WordsPlain], [stride |-> 5, texts |-> WordsMixed] }

TextAt(lab, k) == lab.texts[((k - 1) % Len(lab.texts)) + 1]

\* (start, end) pairs of n arbitrary entries.
AnySpans(n, us) == [1 .. n -> Times(us) \X Times(us)]

\* (start, end) pairs of n entries ordered by start, each with end >= start.
RECURSIVE OrderedSpans(_, _)
OrderedSpans(n, us) ==
    IF n = 0 THEN { << >> }
    ELSE LET ext == { q \in OrderedSpans(n - 1, us) \X (Times(us) \X Times(us)) :
                        /\ q[2][2] >= q[2][1]
                        /\ q[1] # << >> => q[2][1] >= q[1][Len(q[1])][1] }
         IN  { Append(q[1], q[2]) : q \in ext }

\* The inputs: every sequence of up to MaxLenAny entries and every ordered
\* sequence of up to MaxLen entries.
InputSpans(us) ==
    UNION { AnySpans(n, us) : n \in 0 .. MaxLenAny } \cup
    UNION { OrderedSpans(n, us) : n \in 0 .. MaxLen }

\* The targets: up to MaxDur seconds and no longer than the largest timestamp
\* (under a longer target every entry is short and no group reaches its
\* target end, as under the largest target kept).
Targets(us) ==
    { ds \in 1 .. MaxDur : \E t \in Times(us) : Duration(ds, us) <= t }

\* The list of dicts with the times sp, labelled by lab.
EntriesOf(sp, lab) ==
    [k \in 1 .. Len(sp) |->
        MakeEntry(lab.stride * k, sp[k][1], sp[k][2], TextAt(lab, k))]

\* ------------------------------------------------------------------- state

VARIABLES
    entries,                 \* argument: the input list
    duration_seconds,        \* argument: the target duration
    use_seconds,             \* argument: the unit mode
    duration,                \* local: target in the entries' unit
    min_duration_threshold,  \* local: round(2 * duration / 3)
    merged,                  \* local: the output list
    i,                       \* local: the cursor (0-based)
    current_group_texts,     \* local: texts of the group being built
    current_group_start,     \* local: start of the group being built
    target_end_time,         \* local: current_group_start + duration
    pc,                      \* "outer" | "inner" | "done"
    current_group_members,   \* history: input indices behind current_group_texts
    runs,                    \* history: input indices and branch behind each merged entry
    call,                    \* caller: 1 in the first call, 2 in the call on its result
    first_entries,           \* caller: the first call's input, once it returned
    first_merged             \* caller: the first call's result, once it returned

\* parse_timestamp and format_timestamp, called on their own.
VARIABLES
    timestamp,               \* parse_timestamp: the argument
    made_from,               \* history: the fields and the defect timestamp was written with
    parse_result,            \* parse_timestamp: what the call gave back
    ms,                      \* format_timestamp: argument
    format_type,             \* format_timestamp: argument
    format_result,           \* format_timestamp: what the call gave back
    codec_pc                 \* "idle" | "call" | "returned"

codec_vars == << timestamp, made_from, parse_result, ms, format_type,
                 format_result, codec_pc >>

\* parse_sbv.
VARIABLES
    content,                 \* argument: the text of the SBV file
    round_to_seconds,        \* argument
    lines,                   \* local: content.split("\n")
    line_i,                  \* local i: the cursor into lines (0-based)
    entry_id,                \* local
    sbv_entries,             \* local entries: the list being built
    start_end,               \* local: (start_ms, end_ms) of the entry being read
    text_lines,              \* local: the text lines of the entry being read
    sbv_pc,                  \* "idle" | "scan" | "text" | "done" | "raised"
    text_from,               \* history: indices of the lines behind text_lines
    sbv_runs,                \* history: per entry, its timestamp line and its text lines
    skipped                  \* history: indices of the lines the scan passed over

sbv_vars == << content, round_to_seconds, lines, line_i, entry_id,
               sbv_entries, start_end, text_lines, sbv_pc, text_from,
               sbv_runs, skipped >>

\* main of cli.py (svb2json) and of cli_txt.py (svb2txt).
VARIABLES
    prog,                    \* "svb2json" | "svb2txt"
    cli_args,                \* args: indent, seconds, merge, format, output
    input_file,              \* environment: what is at the input path
    main_entries,            \* local entries
    output_text,             \* local json_output, text_output
    written,                 \* environment: what was written, and where
    exit_code,               \* the value main returned, -1 while it runs
    cli_pc,                  \* the statement main is at
    did                      \* history: the calls main made

cli_vars == << prog, cli_args, input_file, main_entries, output_text,
               written, exit_code, cli_pc, did >>

\* chunk_json_content of chunk2tokens.py.
VARIABLES
    data,                    \* argument: a list, a dict (as key/value pairs) or a primitive
    data_type,               \* "list" | "dict" | "other": the isinstance tests
    max_tokens,              \* argument
    chunks,                  \* local
    current_chunk,           \* local
    current_tokens,          \* local
    item_k,                  \* position of the for loop in data (0-based)
    chunk_pc,                \* "idle" | "loop" | "returned"
    item_counts,             \* history: item_tokens of each array member so far
    current_count,           \* history: << n >> when the last count_tokens call
                             \* on a serialized chunk was on current_chunk
    chunk_counts             \* history: current_count of each array chunk when
                             \* it was appended to chunks

\* save_chunks of chunk2tokens.py.
VARIABLES
    save_chunks_arg,         \* argument chunks: (chunk_content, ext) pairs
    output_dir,              \* argument, or original_path.parent when None
    stem,                    \* original_path.stem
    num_digits,              \* local
    save_i,                  \* i of enumerate(chunks, 1)
    saved_files,             \* local, the list returned
    directory,               \* the files of output_dir: name and content
    save_pc                  \* "idle" | "loop" | "returned"

save_vars == << save_chunks_arg, output_dir, stem, num_digits, save_i,
                saved_files, directory, save_pc >>

chunk_vars == << data, data_type, max_tokens, chunks, current_chunk,
                 current_tokens, item_k, chunk_pc, item_counts,
                 current_count, chunk_counts, save_vars >>

merge_vars == << entries, duration_seconds, use_seconds, duration,
                 min_duration_threshold, merged, i, current_group_texts,
                 current_group_start, target_end_time, pc,
                 current_group_members, runs, call, first_entries,
                 first_merged >>

vars == << merge_vars, codec_vars, sbv_vars, cli_vars, chunk_vars >>

\* What no step of merge_subtitles writes: its arguments, its caller's
\* variables and the variables of the other functions.
args == << entries, duration_seconds, use_seconds, duration,
           min_duration_threshold, call, first_entries, first_merged,
           codec_vars, sbv_vars, cli_vars, chunk_vars >>

group == << current_group_texts, current_group_start, target_end_time,
            current_group_members >>

\* A call that has not returned yet has no result.
NoResult == [raised |-> FALSE, value |-> << >>]

\* No call of parse_timestamp or format_timestamp on its own.
CodecIdle ==
    /\ timestamp = << >>
    /\ made_from = << >>
    /\ parse_result = NoResult
    /\ ms = 0
    /\ format_type = "Mi"
    /\ format_result = NoResult
    /\ codec_pc = "idle"

\* No call of parse_sbv.
SbvIdle ==
    /\ content = << >>
    /\ round_to_seconds = FALSE
    /\ lines = << >>
    /\ line_i = 0
    /\ entry_id = 0
    /\ sbv_entries = << >>
    /\ start_end = << 0, 0 >>
    /\ text_lines = << >>
    /\ sbv_pc = "idle"
    /\ text_from = << >>
    /\ sbv_runs = << >>
    /\ skipped = << >>

\* No run of a command-line program.
NoArgs == [indent |-> 2, seconds |-> FALSE, merge |-> << >>,
           format |-> "HH:MM:SS", output |-> "none"]
NoFile == [exists |-> FALSE, readable |-> FALSE, content |-> << >>]
NothingWritten == [to |-> "nothing", body |-> << >>]

CliIdle ==
    /\ prog = "none"
    /\ cli_args = NoArgs
    /\ input_file = NoFile
    /\ main_entries = << >>
    /\ output_text = << >>
    /\ written = NothingWritten
    /\ exit_code = -1
    /\ cli_pc = "idle"
    /\ did = << >>

\* No call of save_chunks.
SaveIdle ==
    /\ save_chunks_arg = << >>
    /\ output_dir = "parent"
    /\ stem = << >>
    /\ num_digits = 1
    /\ save_i = 1
    /\ saved_files = << >>
    /\ directory = { }
    /\ save_pc = "idle"

\* No call of chunk_json_content, none of save_chunks.
ChunkIdle ==
    /\ SaveIdle
    /\ data = << >>
    /\ data_type = "other"
    /\ max_tokens = 0
    /\ chunks = << >>
    /\ current_chunk = << >>
    /\ current_tokens = 0
    /\ item_k = 0
    /\ chunk_pc = "idle"
    /\ item_counts = << >>
    /\ current_count = << >>
    /\ chunk_counts = << >>

\* No call of merge_subtitles.
MergeIdle ==
    /\ entries = << >>
    /\ duration_seconds = 1
    /\ use_seconds = FALSE
    /\ duration = 1000
    /\ min_duration_threshold = 667
    /\ merged = << >>
    /\ i = 0
    /\ current_group_texts = << >>
    /\ current_group_start = 0
    /\ target_end_time = 0
    /\ pc = "idle"
    /\ current_group_members = << >>
    /\ runs = << >>
    /\ call = 0
    /\ first_entries = << >>
    /\ first_merged = << >>

\* The locals of merge_subtitles(E, ds, us) on entry to its outer loop.
Locals(E, ds, us) ==
    [entries |-> E,
     duration_seconds |-> ds,
     use_seconds |-> us,
     duration |-> Duration(ds, us),
     min_duration_threshold |-> MinDurationThreshold(ds, us),
     merged |-> << >>,
     i |-> 0,
     current_group_texts |-> << >>,
     current_group_start |-> 0,
     target_end_time |-> 0,
     pc |-> "outer",
     current_group_members |-> << >>,
     runs |-> << >>]

\* The first call, merge_subtitles(E, ds, us), at its outer loop, nothing
\* else running.
Enter(E, ds, us) ==
    LET l == Locals(E, ds, us)
    IN  /\ entries = l.entries
        /\ duration_seconds = l.duration_seconds
        /\ use_seconds = l.use_seconds
        /\ duration = l.duration
        /\ min_duration_threshold = l.min_duration_threshold
        /\ merged = l.merged
        /\ i = l.i
        /\ current_group_texts = l.current_group_texts
        /\ current_group_start = l.current_group_start
        /\ target_end_time = l.target_end_time
        /\ pc = l.pc
        /\ current_group_members = l.current_group_members
        /\ runs = l.runs
        /\ call = 1
        /\ first_entries = << >>
        /\ first_merged = << >>
        /\ CodecIdle
        /\ SbvIdle
        /\ CliIdle
        /\ ChunkIdle

Init ==
    \E us \in BOOLEAN, lab \in Labelings :
        \E ds \in Targets(us), sp \in InputSpans(us) :
            Enter(EntriesOf(sp, lab), ds, us)

\* ----------------------------------------------------------------- actions

entry == At(entries, i)
entry_duration == entry.end - entry.start
next_entry == At(entries, i)
next_duration == next_entry.end - next_entry.start

\* if entry_duration >= duration
EntryLasts == entry_duration >= duration

\* Bug variant: > in place of >= in the outer loop.
EntryAtThreshold_Strict == entry_duration > min_duration_threshold

\* if entry_duration >= min_duration_threshold
EntryAtThreshold == entry_duration >= min_duration_threshold

\* Bug variant: > in place of >=.
NextAtThreshold_Strict == next_duration > min_duration_threshold

\* if next_duration >= min_duration_threshold
NextAtThreshold == next_duration >= min_duration_threshold

\* Bug variant: the end is compared with the group's start, not its target.
NextCompletes_FromGroupStart == next_entry.end >= current_group_start

\* Bug variant: an entry ending exactly at the target end does not complete.
NextCompletes_Strict == next_entry.end > target_end_time

\* if next_entry["end"] >= target_end_time
NextCompletes == next_entry.end >= target_end_time

\* Bug variant: "id": len(merged), ids counted from 0.
Emit_ZeroBased(start, end, text, members, how) ==
    /\ merged' = Append(merged, MakeEntry(Len(merged), start, end, text))
    /\ runs' = Append(runs, [members |-> members, how |-> how])

\* merged.append({...}) with "id": len(merged) + 1. The history records the
\* input indices the entry was built from and the branch that built it.
Emit(start, end, text, members, how) ==
    /\ merged' = Append(merged, MakeEntry(Len(merged) + 1, start, end, text))
    /\ runs' = Append(runs, [members |-> members, how |-> how])

\* Outer loop, entry_duration >= duration: the entry is emitted as it is.
PassLong ==
    /\ pc = "outer"
    /\ i < Len(entries)
    /\ EntryLasts
    /\ Emit(entry.start, entry.end, entry.text, << i >>, "long")
    /\ i' = i + 1
    /\ UNCHANGED << args, group, pc >>

\* Outer loop, entry_duration >= min_duration_threshold: emitted as it is.
PassThreshold ==
    /\ pc = "outer"
    /\ i < Len(entries)
    /\ ~EntryLasts
    /\ EntryAtThreshold
    /\ Emit(entry.start, entry.end, entry.text, << i >>, "threshold")
    /\ i' = i + 1
    /\ UNCHANGED << args, group, pc >>

\* Bug variant: current_group_start = entry["end"].
StartGroup_StartAtEnd ==
    /\ pc = "outer"
    /\ i < Len(entries)
    /\ ~EntryLasts
    /\ ~EntryAtThreshold
    /\ current_group_texts' = << entry.text >>
    /\ current_group_start' = entry.end
    /\ target_end_time' = entry.end + duration
    /\ current_group_members' = << i >>
    /\ i' = i + 1
    /\ pc' = "inner"
    /\ UNCHANGED << args, merged, runs >>

\* Bug variant: target_end_time = current_group_start, the duration forgotten.
StartGroup_NoTarget ==
    /\ pc = "outer"
    /\ i < Len(entries)
    /\ ~EntryLasts
    /\ ~EntryAtThreshold
    /\ current_group_texts' = << entry.text >>
    /\ current_group_start' = entry.start
    /\ target_end_time' = entry.start
    /\ current_group_members' = << i >>
    /\ i' = i + 1
    /\ pc' = "inner"
    /\ UNCHANGED << args, merged, runs >>

\* Outer loop, short entry: a group is started with it.
StartGroup ==
    /\ pc = "outer"
    /\ i < Len(entries)
    /\ ~EntryLasts
    /\ ~EntryAtThreshold
    /\ current_group_texts' = << entry.text >>
    /\ current_group_start' = entry.start
    /\ target_end_time' = entry.start + duration
    /\ current_group_members' = << i >>
    /\ i' = i + 1
    /\ pc' = "inner"
    /\ UNCHANGED << args, merged, runs >>

\* Bug variant: the cursor is advanced past next_entry before the break.
InnerStopLong_Skip ==
    /\ pc = "inner"
    /\ i < Len(entries)
    /\ NextAtThreshold
    /\ IF current_group_texts # << >>
       THEN Emit(current_group_start, At(entries, i - 1).end,
                 JoinSpace(current_group_texts), current_group_members, "stop")
       ELSE UNCHANGED << merged, runs >>
    /\ i' = i + 1
    /\ pc' = "outer"
    /\ UNCHANGED << args, group >>

\* Bug variant: last_end = entries[i]["end"], the end of next_entry.
InnerStopLong_NextEnd ==
    /\ pc = "inner"
    /\ i < Len(entries)
    /\ NextAtThreshold
    /\ IF current_group_texts # << >>
       THEN Emit(current_group_start, At(entries, i).end,
                 JoinSpace(current_group_texts), current_group_members, "stop")
       ELSE UNCHANGED << merged, runs >>
    /\ pc' = "outer"
    /\ UNCHANGED << args, group, i >>

\* Inner loop, next_duration >= min_duration_threshold: the group is closed
\* at the previous entry's end and next_entry is left to the outer loop.
InnerStopLong ==
    /\ pc = "inner"
    /\ i < Len(entries)
    /\ NextAtThreshold
    /\ IF current_group_texts # << >>
       THEN Emit(current_group_start, At(entries, i - 1).end,
                 JoinSpace(current_group_texts), current_group_members, "stop")
       ELSE UNCHANGED << merged, runs >>
    /\ pc' = "outer"
    /\ UNCHANGED << args, group, i >>

\* Bug variant: the completed group ends at target_end_time.
InnerComplete_TargetEnd ==
    /\ pc = "inner"
    /\ i < Len(entries)
    /\ ~NextAtThreshold
    /\ NextCompletes
    /\ current_group_texts' = Append(current_group_texts, next_entry.text)
    /\ current_group_members' = Append(current_group_members, i)
    /\ i' = i + 1
    /\ Emit(current_group_start, target_end_time,
            JoinSpace(current_group_texts'), current_group_members', "complete")
    /\ pc' = "outer"
    /\ UNCHANGED << args, current_group_start, target_end_time >>

\* Inner loop, next_entry reaches the target end: appended, group closed.
InnerComplete ==
    /\ pc = "inner"
    /\ i < Len(entries)
    /\ ~NextAtThreshold
    /\ NextCompletes
    /\ current_group_texts' = Append(current_group_texts, next_entry.text)
    /\ current_group_members' = Append(current_group_members, i)
    /\ i' = i + 1
    /\ Emit(current_group_start, next_entry.end,
            JoinSpace(current_group_texts'), current_group_members', "complete")
    /\ pc' = "outer"
    /\ UNCHANGED << args, current_group_start, target_end_time >>

\* Inner loop, next_entry is short of the target end: appended, loop goes on.
InnerAppend ==
    /\ pc = "inner"
    /\ i < Len(entries)
    /\ ~NextAtThreshold
    /\ ~NextCompletes
    /\ current_group_texts' = Append(current_group_texts, next_entry.text)
    /\ current_group_members' = Append(current_group_members, i)
    /\ i' = i + 1
    /\ UNCHANGED << args, merged, runs, current_group_start,
                    target_end_time, pc >>

\* Bug variant: the loop has no else, a group open at the end is not emitted.
InnerExhausted_NoEmit ==
    /\ pc = "inner"
    /\ ~(i < Len(entries))
    /\ pc' = "outer"
    /\ UNCHANGED << args, group, i, merged, runs >>

\* Inner loop's else: input exhausted, the group is closed with what it has.
InnerExhausted ==
    /\ pc = "inner"
    /\ ~(i < Len(entries))
    /\ Emit(current_group_start, At(entries, i - 1).end,
            JoinSpace(current_group_texts), current_group_members, "exhausted")
    /\ pc' = "outer"
    /\ UNCHANGED << args, group, i >>

\* Outer loop exit: return merged.
Return ==
    /\ pc = "outer"
    /\ ~(i < Len(entries))
    /\ pc' = "done"
    /\ UNCHANGED << args, group, merged, runs, i >>

\* The caller merges the result again with the same duration and unit mode:
\* merge_subtitles(merge_subtitles(E, d, u), d, u).
MergeAgain ==
    /\ pc = "done"
    /\ call = 1
    /\ LET l == Locals(merged, duration_seconds, use_seconds)
       IN  /\ entries' = l.entries
           /\ duration' = l.duration
           /\ min_duration_threshold' = l.min_duration_threshold
           /\ merged' = l.merged
           /\ i' = l.i
           /\ current_group_texts' = l.current_group_texts
           /\ current_group_start' = l.current_group_start
           /\ target_end_time' = l.target_end_time
           /\ pc' = l.pc
           /\ current_group_members' = l.current_group_members
           /\ runs' = l.runs
    /\ call' = 2
    /\ first_entries' = entries
    /\ first_merged' = merged
    /\ UNCHANGED << duration_seconds, use_seconds, codec_vars, sbv_vars,
                    cli_vars, chunk_vars >>

\* One call of merge_subtitles: the branches of its loops and its return.
Next ==
    \/ PassLong
    \/ PassThreshold
    \/ StartGroup
    \/ InnerStopLong
    \/ InnerComplete
    \/ InnerAppend
    \/ InnerExhausted
    \/ Return

Spec == Init /\ [][Next]_vars

\* A call of merge_subtitles followed by a call on its result.
NextAgain ==
    \/ Next
    \/ MergeAgain

SpecAgain == Init /\ [][NextAgain]_vars

\* Inputs around the threshold: one or two adjacent entries starting at 0
\* whose durations lie around two thirds of the target and around the target,
\* for targets up to MaxTarget.
NearThreshold(ds, us) ==
    LET d == Duration(ds, us)
    IN  { x \in { (2 * d) \div 3 + k : k \in -1 .. 2 } \cup { d - 1, d } : x >= 0 }

ThresholdSpans(ds, us) ==
    { << << 0, x >> >> : x \in NearThreshold(ds, us) } \cup
    { << << 0, x >>, << x, x + y >> >> :
        x \in NearThreshold(ds, us), y \in NearThreshold(ds, us) }

InitThreshold ==
    \E us \in BOOLEAN, lab \in Labelings, ds \in 1 .. MaxTarget :
        \E sp \in ThresholdSpans(ds, us) : Enter(EntriesOf(sp, lab), ds, us)

SpecThreshold == InitThreshold /\ [][Next]_vars

\* -------------------------------------------------------------- properties

Done == pc = "done"

Dur(e) == e.end - e.start

Range(seq) == { seq[k] : k \in 1 .. Len(seq) }

OrderedByStart(E) == \A k \in 1 .. Len(E) - 1 : E[k].start <= E[k + 1].start

EndsAfterStarts(E) == \A k \in 1 .. Len(E) : E[k].end >= E[k].start

NonOverlapping(E) == \A k \in 1 .. Len(E) - 1 : E[k + 1].start >= E[k].end

TextsOf(E) == [k \in 1 .. Len(E) |-> E[k].text]

\* The input entries behind output entry k, in the order they were consumed.
RunEntries(k) ==
    [j \in 1 .. Len(runs[k].members) |-> At(entries, runs[k].members[j])]

\* The input indices behind the output, run after run.
RECURSIVE Concat(_)
Concat(seqs) == IF seqs = << >> THEN << >> ELSE seqs[1] \o Concat(Tail(seqs))

AllMembers == Concat([k \in 1 .. Len(runs) |-> runs[k].members])

Standalone == { "long", "threshold" }
Grouped == { "stop", "complete", "exhausted" }

\* Input entry j (1-based) is output as an entry of its own, unchanged.
PassedThrough(j) ==
    \E k \in 1 .. Len(runs) :
        /\ runs[k].members = << j - 1 >>
        /\ runs[k].how \in Standalone
        /\ merged[k].start = entries[j].start
        /\ merged[k].end = entries[j].end
        /\ merged[k].text = entries[j].text

\* Input entry j (1-based) is a member of no group.
InNoGroup(j) ==
    \A k \in 1 .. Len(runs) :
        (j - 1) \in Range(runs[k].members) => runs[k].how \in Standalone

\* C1: when merge_subtitles returns, the output entries partition the input
\* into contiguous runs in the original order (every input index appears in
\* exactly one run, the runs concatenated are 0, 1, ..., n-1), each output
\* text is the join of its run's texts, and the output texts joined in order
\* are, character for character, the input texts joined in order.
C1_Partition ==
    Done =>
        /\ Len(runs) = Len(merged)
        /\ \A k \in 1 .. Len(runs) : runs[k].members # << >>
        /\ AllMembers = [j \in 1 .. Len(entries) |-> j - 1]
        /\ \A k \in 1 .. Len(merged) :
             merged[k].text = JoinSpace(TextsOf(RunEntries(k)))
        /\ JoinSpace(TextsOf(merged)) = JoinSpace(TextsOf(entries))

\* C1 witness: a returned call that fused two entries (one of them with an
\* empty text) into one output entry and emitted another entry besides.
C1_Witness ==
    /\ Done
    /\ call = 1
    /\ Len(entries) = 3
    /\ Len(merged) = 2
    /\ entries[2].text = << >>
    /\ \E k \in 1 .. Len(runs) : Len(runs[k].members) = 2

\* C2: merging the result again with the same duration and unit mode gives
\* the same list (ids, starts, ends, texts), for every first input ordered
\* by start with end >= start in each entry.
C2_Idempotent ==
    (Done /\ call = 2 /\ OrderedByStart(first_entries)
          /\ EndsAfterStarts(first_entries))
        => merged = first_merged

\* C2 witness: the second call has returned on a first result that came from
\* actual merging and that holds a short group, which the second call took
\* through its group branch again.
C2_Witness ==
    /\ Done
    /\ call = 2
    /\ OrderedByStart(first_entries)
    /\ EndsAfterStarts(first_entries)
    /\ Len(first_entries) > Len(first_merged)
    /\ Len(first_merged) >= 2
    /\ \E k \in 1 .. Len(runs) : runs[k].how \in Grouped
    /\ merged = first_merged

\* C3: an input entry whose duration is at or above min_duration_threshold
\* is never a member of a group, neither of the one being built nor of an
\* emitted one, and is output as an entry of its own with its start, end and
\* text unchanged.
C3_AtThresholdStandsAlone ==
    /\ pc = "inner" =>
         \A m \in Range(current_group_members) :
             Dur(At(entries, m)) < min_duration_threshold
    /\ \A j \in 1 .. Len(entries) :
         Dur(entries[j]) >= min_duration_threshold =>
             /\ InNoGroup(j)
             /\ Done => PassedThrough(j)

\* C3 witness: an entry at the threshold, below the target duration, came
\* right after a group that was accumulating and was passed through.
C3_Witness ==
    /\ Done
    /\ \E k \in 1 .. Len(runs) - 1 :
         /\ runs[k].how = "stop"
         /\ runs[k + 1].how = "threshold"
         /\ Dur(RunEntries(k + 1)[1]) = min_duration_threshold
         /\ Dur(RunEntries(k + 1)[1]) < duration

\* C4: an input entry whose duration is at or above the target duration is
\* output as an entry of its own with its start, end and text unchanged,
\* wherever it stands in the input.
C4_LongStandsAlone ==
    \A j \in 1 .. Len(entries) :
        Dur(entries[j]) >= duration =>
            /\ InNoGroup(j)
            /\ Done => PassedThrough(j)

\* C4 witness: entries of at least the target duration stood first, last and
\* right after a group of two short entries that was still accumulating.
C4_Witness ==
    /\ Done
    /\ Len(entries) = 3
    /\ Len(runs) = 2
    /\ Len(runs[1].members) = 2
    /\ runs[1].how = "stop"
    /\ runs[2].how = "long"
    /\ Dur(entries[3]) >= duration

\* C5 as claimed: every output entry built by merging two or more entries
\* lasts at least the target duration.
C5_EveryGroupReachesTarget ==
    Done =>
        \A k \in 1 .. Len(runs) :
            (runs[k].how \in Grouped /\ Len(runs[k].members) >= 2)
                => Dur(merged[k]) >= duration

\* C5 as amended: every group closed because an appended entry's end reached
\* current_group_start + duration lasts at least the target duration.
C5_CompletedGroupReachesTarget ==
    \A k \in 1 .. Len(runs) :
        runs[k].how = "complete" => Dur(merged[k]) >= duration

\* C5 witness: a group was closed by reaching its target end.
C5_Witness ==
    /\ Done
    /\ \E k \in 1 .. Len(runs) :
         runs[k].how = "complete" /\ Len(runs[k].members) = 3

\* C6: the ids of the output are 1..N in output order, whatever ids the
\* input carries.
C6_Renumbered ==
    \A k \in 1 .. Len(merged) : merged[k].id = k

\* C6 witness: an input with ids 5, 10, 15 gave two output entries.
C6_Witness ==
    /\ Done
    /\ call = 1
    /\ Len(entries) = 3
    /\ entries[1].id = 5
    /\ entries[3].id = 15
    /\ Len(merged) = 2

\* C7: for an input ordered by start the output starts are non-decreasing;
\* for an input that is also non-overlapping (end >= start, and each start
\* >= the previous end) the output ends are non-decreasing and each output
\* start is >= the previous output end.
C7_Monotone ==
    Done =>
        /\ OrderedByStart(entries) => OrderedByStart(merged)
        /\ (OrderedByStart(entries) /\ EndsAfterStarts(entries)
                /\ NonOverlapping(entries)) =>
             /\ \A k \in 1 .. Len(merged) - 1 : merged[k].end <= merged[k + 1].end
             /\ NonOverlapping(merged)

\* C7 witness: an ordered, non-overlapping input gave a group of two entries
\* followed by another output entry that starts later.
C7_Witness ==
    /\ Done
    /\ call = 1
    /\ OrderedByStart(entries)
    /\ EndsAfterStarts(entries)
    /\ NonOverlapping(entries)
    /\ Len(merged) = 2
    /\ Len(runs[1].members) = 2
    /\ merged[2].start > merged[1].start
    /\ merged[2].end > merged[1].end

\* C8: for an input ordered by start with end >= start in each entry, no
\* output entry has end < start.
C8_EndNotBeforeStart ==
    (OrderedByStart(entries) /\ EndsAfterStarts(entries)) =>
        \A k \in 1 .. Len(merged) : merged[k].end >= merged[k].start

\* C8 witness: such an input gave a group closed early by a following long
\* entry and a group closed by the end of the input.
C8_Witness ==
    /\ Done
    /\ call = 1
    /\ OrderedByStart(entries)
    /\ EndsAfterStarts(entries)
    /\ \E k \in 1 .. Len(runs) : runs[k].how = "stop"
    /\ \E k \in 1 .. Len(runs) : runs[k].how = "exhausted"

\* C9: min_duration_threshold is the integer nearest to 2 * duration / 3,
\* duration being the target in the entries' unit (the target in seconds
\* mode, 1000 times the target in milliseconds mode); it is 8 for target 12
\* in seconds mode; the comparisons are >=: an output entry is a standalone
\* one exactly when its first input entry lasts >= the threshold, an entry
\* lasting exactly the threshold is passed through, and an entry lasting
\* threshold - 1 is a member of a group (its first member when it is the
\* first entry of the input).
C9_ThresholdExact ==
    /\ duration = IF use_seconds THEN duration_seconds ELSE 1000 * duration_seconds
    /\ 3 * min_duration_threshold - 2 * duration \in -1 .. 1
    /\ (use_seconds /\ duration_seconds = 12) => min_duration_threshold = 8
    /\ \A k \in 1 .. Len(runs) :
         runs[k].how \in Standalone <=>
             Dur(RunEntries(k)[1]) >= min_duration_threshold
    /\ \A j \in 1 .. Len(entries) :
         /\ Dur(entries[j]) = min_duration_threshold =>
              /\ InNoGroup(j)
              /\ Done => PassedThrough(j)
         /\ (Done /\ Dur(entries[j]) = min_duration_threshold - 1) =>
              /\ \E k \in 1 .. Len(runs) :
                   /\ (j - 1) \in Range(runs[k].members)
                   /\ runs[k].how \in Grouped
              /\ j = 1 => runs[1].members[1] = 0

\* C9 witness: target 12 in seconds mode, threshold 8; the entry 0..8 was
\* passed through and the entry 8..15 (duration 7) started a group.
C9_Witness ==
    /\ Done
    /\ call = 1
    /\ use_seconds
    /\ duration_seconds = 12
    /\ min_duration_threshold = 8
    /\ Len(entries) = 2
    /\ Dur(entries[1]) = 8
    /\ PassedThrough(1)
    /\ Dur(entries[2]) = 7
    /\ runs[2] = [members |-> << 1 >>, how |-> "exhausted"]

\* What is left of a call: it decreases with every step of the call.
Variant ==
    IF pc = "done" THEN 0
    ELSE 2 * (Len(entries) - i) + (IF pc = "inner" THEN 2 ELSE 1)

\* Every read of the call is in bounds (entries[i] is read under i <
\* len(entries), entries[i - 1] in the inner loop) and the call can go on
\* until it has returned.
C10_Bounds ==
    /\ pc \in { "outer", "inner", "done" }
    /\ i >= 0
    /\ i <= Len(entries)
    /\ pc = "inner" => (i - 1 >= 0 /\ i - 1 < Len(entries))
    /\ pc # "done" => ENABLED Next

\* A step of a call: the variant decreases; the cursor never goes back and
\* the first step of an outer-loop iteration advances it; a started group
\* emits nothing while it is open and exactly one entry, its own, when the
\* inner loop is left; the call does not return with a group open.
C10_Step ==
    /\ Variant' < Variant
    /\ i' >= i
    /\ (pc = "outer" /\ pc' # "done") => i' = i + 1
    /\ pc' = "inner" => (merged' = merged /\ runs' = runs)
    /\ (pc = "inner" /\ pc' # "inner") =>
         /\ pc' = "outer"
         /\ Len(merged') = Len(merged) + 1
         /\ Len(runs') = Len(runs) + 1
         /\ runs'[Len(runs')].how \in Grouped
         /\ runs'[Len(runs')].members = current_group_members'
         /\ merged'[Len(merged')].start = current_group_start
         /\ merged'[Len(merged')].text = JoinSpace(current_group_texts')
    /\ pc' = "done" => pc = "outer"

\* C10: for every input, unsorted, overlapping or with end < start included,
\* merge_subtitles terminates without error: the reads are in bounds, the
\* cursor strictly increases on every outer-loop iteration, every step brings
\* the return nearer, and every started group is closed and emitted exactly
\* once, by the break or by the exhaustion of the input.
C10_TerminatesInBounds == [](C10_Bounds) /\ [][C10_Step]_vars

\* C10 witness: the call returned on an unsorted input with end < start and
\* closed a group of two entries by input exhaustion.
C10_Witness ==
    /\ Done
    /\ call = 1
    /\ ~OrderedByStart(entries)
    /\ ~EndsAfterStarts(entries)
    /\ \E k \in 1 .. Len(runs) :
         runs[k].how = "exhausted" /\ Len(runs[k].members) = 2

\* The members of a run are consecutive input indices.
Contiguous(members) ==
    \A j \in 1 .. Len(members) - 1 : members[j + 1] = members[j] + 1

\* C11: every output entry is built from its contiguous run of input
\* entries: its start is the start of the run's first entry, its end is the
\* end of the run's last entry, its text is the run's texts joined with one
\* space in the original order; a short entry that is the last of the input
\* and opens a group is emitted as a group of one entry with its own start,
\* end and text.
C11_BuiltFromRun ==
    /\ Len(runs) = Len(merged)
    /\ \A k \in 1 .. Len(merged) :
         /\ runs[k].members # << >>
         /\ Contiguous(runs[k].members)
         /\ merged[k].start = RunEntries(k)[1].start
         /\ merged[k].end = RunEntries(k)[Len(RunEntries(k))].end
         /\ merged[k].text = JoinSpace(TextsOf(RunEntries(k)))
    /\ (Done /\ entries # << >>
             /\ Dur(entries[Len(entries)]) < min_duration_threshold
             /\ Dur(entries[Len(entries)]) < duration) =>
         /\ runs[Len(runs)].how \in Grouped
         /\ runs[Len(runs)].members[1] = Len(entries) - 1 =>
              /\ runs[Len(runs)] =
                     [members |-> << Len(entries) - 1 >>, how |-> "exhausted"]
              /\ merged[Len(merged)].start = entries[Len(entries)].start
              /\ merged[Len(merged)].end = entries[Len(entries)].end
              /\ merged[Len(merged)].text = entries[Len(entries)].text

\* C11 witness: a group of two entries with different starts and ends was
\* closed by reaching its target end, and the short last entry of the input
\* was emitted after it as a group of its own.
C11_Witness ==
    /\ Done
    /\ call = 1
    /\ Len(entries) = 3
    /\ Len(runs) = 2
    /\ runs[1] = [members |-> << 0, 1 >>, how |-> "complete"]
    /\ entries[1].start < entries[2].start
    /\ entries[1].end < entries[2].end
    /\ merged[1].end > merged[1].start + duration
    /\ runs[2] = [members |-> << 2 >>, how |-> "exhausted"]
    /\ merged[2].text = entries[3].text

\* ------------------------------------------- parse_timestamp on its own

\* The fields << h, m, s, ms >> a side of a timestamp is written from. The
\* minutes go up to 99: the pattern counts digits and checks no range.
StartFields ==
    { << h, m, s, f >> : h \in (0 .. MaxHour) \cup { 12 }, m \in { 0, 30, 99 },
                         s \in { 1, 45 }, f \in { 0, 500, 999 } }

\* The end fields include sides earlier than every start.
EndFields == { << 0, 0, 3, 0 >>, << 2, 15, 30, 250 >>, << 0, 0, 0, 0 >> }

\* H:MM:SS.mmm of four fields, the hours with at least hour_width digits.
WriteSide(f, hour_width) ==
    ZeroPad(StrOf(f[1]), hour_width) \o << ":" >> \o ZeroPad(StrOf(f[2]), 2)
        \o << ":" >> \o ZeroPad(StrOf(f[3]), 2) \o << "." >>
        \o ZeroPad(StrOf(f[4]), 3)

\* Ways of writing a timestamp that keep it in the format.
WellFormed == { "plain", "padded", "hours2" }

\* Ways of writing it that leave the format.
Malformed ==
    { "dash", "millis2", "millis4", "no_millis", "no_hours", "inner_space",
      "trailing_text", "signed", "word", "empty" }

\* The text of a timestamp written from two sides in a given way.
WriteTimestamp(start, end, how) ==
    LET plain == WriteSide(start, 1) \o << "," >> \o WriteSide(end, 1)
    IN  CASE how = "plain" -> plain
          [] how = "padded" -> << " ", " " >> \o plain \o << " ", "\t" >>
          [] how = "hours2" ->
                WriteSide(start, 2) \o << "," >> \o WriteSide(end, 2)
          [] how = "dash" ->
                WriteSide(start, 2) \o << "-" >> \o WriteSide(end, 2)
          [] how = "millis2" -> SubSeq(plain, 1, Len(plain) - 1)
          [] how = "millis4" -> plain \o << "0" >>
          [] how = "no_millis" ->
                SubSeq(WriteSide(start, 1), 1, Len(WriteSide(start, 1)) - 4)
                    \o << "," >> \o WriteSide(end, 1)
          [] how = "no_hours" ->
                SubSeq(plain, Len(StrOf(start[1])) + 1, Len(plain))
          [] how = "inner_space" ->
                WriteSide(start, 1) \o << ",", " " >> \o WriteSide(end, 1)
          [] how = "trailing_text" -> plain \o << " ", "x" >>
          [] how = "signed" -> << "-" >> \o plain
          [] how = "word" -> << "i", "n", "v", "a", "l", "i", "d" >>
          [] how = "empty" -> << >>

\* A call parse_timestamp(timestamp) about to be made.
InitTimestamp ==
    /\ \E start \in StartFields, end \in EndFields,
          how \in WellFormed \cup Malformed :
          /\ timestamp = WriteTimestamp(start, end, how)
          /\ made_from = [start |-> start, end |-> end, how |-> how]
    /\ parse_result = NoResult
    /\ ms = 0
    /\ format_type = "Mi"
    /\ format_result = NoResult
    /\ codec_pc = "parse_timestamp"
    /\ MergeIdle
    /\ SbvIdle
    /\ CliIdle
    /\ ChunkIdle

\* The call: it returns the pair or raises.
CallParseTimestamp ==
    /\ codec_pc = "parse_timestamp"
    /\ parse_result' = parse_timestamp(timestamp)
    /\ codec_pc' = "returned"
    /\ UNCHANGED << timestamp, made_from, ms, format_type, format_result,
                    merge_vars, sbv_vars, cli_vars, chunk_vars >>

NextTimestamp == CallParseTimestamp

SpecTimestamp == InitTimestamp /\ [][NextTimestamp]_vars

\* ((h * 3600 + m * 60 + s) * 1000 + ms) of the fields a side was written from.
MillisOf(f) == (f[1] * 3600 + f[2] * 60 + f[3]) * 1000 + f[4]

\* C14: parse_timestamp is total: on a text that, trimmed, is
\* H:MM:SS.mmm,H:MM:SS.mmm (hours of one or more digits, minutes and seconds
\* of two digits with no range check, milliseconds of three digits) it
\* returns ((h*3600+m*60+s)*1000+ms) of each side, whether or not end >=
\* start; on every other text it fails with the format error and returns
\* nothing.
C14_ParseTimestampTotal ==
    codec_pc = "returned" =>
        IF made_from.how \in WellFormed
        THEN parse_result = Returned(<< MillisOf(made_from.start),
                                        MillisOf(made_from.end) >>)
        ELSE parse_result = ValueError

\* C14 witness: a call returned on a text with surrounding blanks, minutes
\* 99 and an end before its start.
C14_Witness ==
    /\ codec_pc = "returned"
    /\ made_from.how = "padded"
    /\ made_from.start[2] = 99
    /\ ~parse_result.raised
    /\ parse_result.value[2] < parse_result.value[1]
    /\ parse_result.value[1] = (99 * 60 + made_from.start[3]) * 1000
                                   + made_from.start[4]
    /\ made_from.start[1] = 0

\* ------------------------------------------ format_timestamp on its own

\* Millisecond values around the second, the half second, the minute, the
\* half minute and the hour, up to three-digit hours.
FormatInputs ==
    { h * 3600000 + m * 60000 + s * 1000 + f :
        h \in (0 .. MaxHour) \cup { 100 }, m \in { 0, 1, 59 },
        s \in { 0, 1, 29, 30, 59 }, f \in { 0, 1, 499, 500, 501, 999 } }

\* Format kinds outside the six.
OtherFormatTypes == { "XX", "hh:mm:ss" }

\* A call format_timestamp(ms, format_type) about to be made.
InitFormat ==
    /\ ms \in FormatInputs
    /\ format_type \in FormatTypes \cup OtherFormatTypes
    /\ format_result = NoResult
    /\ timestamp = << >>
    /\ made_from = << >>
    /\ parse_result = NoResult
    /\ codec_pc = "format_timestamp"
    /\ MergeIdle
    /\ SbvIdle
    /\ CliIdle
    /\ ChunkIdle

\* The call: it returns an int or a str, or raises.
CallFormatTimestamp ==
    /\ codec_pc = "format_timestamp"
    /\ format_result' = format_timestamp(ms, format_type)
    /\ codec_pc' = "returned"
    /\ UNCHANGED << timestamp, made_from, parse_result, ms, format_type,
                    merge_vars, sbv_vars, cli_vars, chunk_vars >>

NextFormat == CallFormatTimestamp

SpecFormat == InitFormat /\ [][NextFormat]_vars

\* The pieces of s between the characters of seps.
RECURSIVE SplitOn(_, _)
SplitOn(s, seps) ==
    IF \A k \in 1 .. Len(s) : s[k] \notin seps THEN << s >>
    ELSE LET k == CHOOSE j \in 1 .. Len(s) :
                      s[j] \in seps /\ \A l \in 1 .. j - 1 : s[l] \notin seps
         IN  << SubSeq(s, 1, k - 1) >> \o SplitOn(SubSeq(s, k + 1, Len(s)), seps)

AllDigits(s) == s # << >> /\ \A k \in 1 .. Len(s) : IsDigit(s[k])

\* r is an integer nearest to n / m.
Nearest(r, n, m) == 2 * (r * m - n) \in -m .. m

\* s is HH, MM, SS and mmm fields with the given separators: hours of two
\* or more digits, then fields of two digits (three for the last when
\* with_millis).
Fielded(s, count, with_millis) ==
    LET f == SplitOn(s, { ":", "." })
    IN  /\ Len(f) = count
        /\ \A k \in 1 .. count : AllDigits(f[k])
        /\ Len(f[1]) >= 2
        /\ \A k \in 2 .. count :
             Len(f[k]) = IF with_millis /\ k = count THEN 3 ELSE 2
        /\ \A k \in 1 .. Len(s) :
             s[k] = "." <=> (with_millis /\ k = Len(s) - 3)

FieldOf(s, k) == IntOf(SplitOn(s, { ":", "." })[k])

\* C18: for every non-negative ms format_timestamp returns ms itself for Mi;
\* an integer nearest to ms / 1000 for SS and to ms / 60000 for MM; for HH:MM
\* hours and minutes, minutes in 0..59, of a total of minutes nearest to
\* ms / 60000 (01:01 for 3661000); for HH:MM:SS the hours, minutes in 0..59
\* and seconds in 0..59 of ms floored to the second; for HH:MM:SS.Mi these
\* and the remaining milliseconds in 0..999; it raises the format error for
\* every other kind.
C18_FormatTimestamp ==
    codec_pc = "returned" =>
        LET r == format_result
            v == r.value
        IN  CASE format_type = "Mi" ->
                   ~r.raised /\ v.type = "int" /\ v.int = ms
              [] format_type = "SS" ->
                   ~r.raised /\ v.type = "int" /\ Nearest(v.int, ms, 1000)
              [] format_type = "MM" ->
                   ~r.raised /\ v.type = "int" /\ Nearest(v.int, ms, 60000)
              [] format_type = "HH:MM" ->
                   /\ ~r.raised /\ v.type = "str"
                   /\ Fielded(v.str, 2, FALSE)
                   /\ FieldOf(v.str, 2) \in 0 .. 59
                   /\ Nearest(60 * FieldOf(v.str, 1) + FieldOf(v.str, 2),
                              ms, 60000)
                   /\ ms = 3661000 => v.str = << "0", "1", ":", "0", "1" >>
              [] format_type = "HH:MM:SS" ->
                   /\ ~r.raised /\ v.type = "str"
                   /\ Fielded(v.str, 3, FALSE)
                   /\ FieldOf(v.str, 2) \in 0 .. 59
                   /\ FieldOf(v.str, 3) \in 0 .. 59
                   /\ (FieldOf(v.str, 1) * 3600 + FieldOf(v.str, 2) * 60
                          + FieldOf(v.str, 3)) = ms \div 1000
              [] format_type = "HH:MM:SS.Mi" ->
                   /\ ~r.raised /\ v.type = "str"
                   /\ Fielded(v.str, 4, TRUE)
                   /\ FieldOf(v.str, 2) \in 0 .. 59
                   /\ FieldOf(v.str, 3) \in 0 .. 59
                   /\ FieldOf(v.str, 4) \in 0 .. 999
                   /\ (FieldOf(v.str, 1) * 3600 + FieldOf(v.str, 2) * 60
                          + FieldOf(v.str, 3)) * 1000 + FieldOf(v.str, 4) = ms
              [] OTHER -> r = ValueError

\* C18 witness: format_timestamp(3661000, "HH:MM") returned "01:01".
C18_Witness ==
    /\ codec_pc = "returned"
    /\ ms = 3661000
    /\ format_type = "HH:MM"
    /\ format_result =
           Returned(StrValue(<< "0", "1", ":", "0", "1" >>))

\* ---------------------------------------------------------------- parse_sbv

\* The lines an SBV text is written from: timestamp lines (one surrounded by
\* blanks, one whose end is before its start), an empty line, a line of
\* blanks, text lines (one to be trimmed, with a space inside) and a line
\* that is nearly a timestamp.
LinePool ==
    { WriteTimestamp(<< 0, 0, 1, 200 >>, << 0, 0, 3, 800 >>, "plain"),
      WriteTimestamp(<< 0, 0, 4, 0 >>, << 0, 0, 2, 0 >>, "padded"),
      << >>,
      << " ", "\t" >>,
      << "a" >>,
      << " ", "b", " ", "c", " " >>,
      WriteTimestamp(<< 0, 0, 1, 0 >>, << 0, 0, 3, 0 >>, "dash") }

\* "\n".join(ls)
RECURSIVE JoinLines(_)
JoinLines(ls) ==
    IF ls = << >> THEN << >>
    ELSE IF Len(ls) = 1 THEN ls[1]
    ELSE ls[1] \o << "\n" >> \o JoinLines(Tail(ls))

\* The SBV texts of up to MaxLines lines.
Contents ==
    { JoinLines(ls) : ls \in UNION { [1 .. n -> LinePool] : n \in 0 .. MaxLines } }

\* The locals of parse_sbv(c, r) at the head of its while loop.
InitSbv ==
    /\ content \in Contents
    /\ round_to_seconds \in BOOLEAN
    /\ lines = SplitOn(content, { "\n" })
    /\ line_i = 0
    /\ entry_id = 0
    /\ sbv_entries = << >>
    /\ start_end = << 0, 0 >>
    /\ text_lines = << >>
    /\ sbv_pc = "scan"
    /\ text_from = << >>
    /\ sbv_runs = << >>
    /\ skipped = << >>
    /\ MergeIdle
    /\ CodecIdle
    /\ CliIdle
    /\ ChunkIdle

\* line = lines[i].strip(), and stripped = text_line.strip() of the inner loop.
line == Strip(At(lines, line_i))

\* if TIMESTAMP_PATTERN.match(line)
IsTimestamp(l) == TIMESTAMP_PATTERN(l) # << >>

\* Outer loop, if not line: the line is passed over.
SkipEmpty ==
    /\ sbv_pc = "scan"
    /\ line_i < Len(lines)
    /\ line = << >>
    /\ line_i' = line_i + 1
    /\ skipped' = Append(skipped, line_i)
    /\ UNCHANGED << content, round_to_seconds, lines, entry_id, sbv_entries,
                    start_end, text_lines, sbv_pc, text_from, sbv_runs,
                    merge_vars, codec_vars, cli_vars, chunk_vars >>

\* Outer loop, the line is a timestamp: entry_id += 1, parse_timestamp(line),
\* text_lines = [], i += 1. A ValueError of parse_timestamp leaves parse_sbv.
ReadTimestamp ==
    /\ sbv_pc = "scan"
    /\ line_i < Len(lines)
    /\ line # << >>
    /\ IsTimestamp(line)
    /\ entry_id' = entry_id + 1
    /\ IF parse_timestamp(line).raised
       THEN /\ sbv_pc' = "raised"
            /\ UNCHANGED << start_end, text_lines, line_i, text_from >>
       ELSE /\ start_end' = parse_timestamp(line).value
            /\ text_lines' = << >>
            /\ line_i' = line_i + 1
            /\ text_from' = << line_i >>
            /\ sbv_pc' = "text"
    /\ UNCHANGED << content, round_to_seconds, lines, sbv_entries, sbv_runs,
                    skipped, merge_vars, codec_vars, cli_vars, chunk_vars >>

\* Outer loop, else: a line that is no timestamp and belongs to no entry.
SkipOther ==
    /\ sbv_pc = "scan"
    /\ line_i < Len(lines)
    /\ line # << >>
    /\ ~IsTimestamp(line)
    /\ line_i' = line_i + 1
    /\ skipped' = Append(skipped, line_i)
    /\ UNCHANGED << content, round_to_seconds, lines, entry_id, sbv_entries,
                    start_end, text_lines, sbv_pc, text_from, sbv_runs,
                    merge_vars, codec_vars, cli_vars, chunk_vars >>

\* Bug variant: the collected lines are joined without a separator.
EntryText_Glued ==
    LET RECURSIVE Glue(_)
        Glue(ts) == IF ts = << >> THEN << >> ELSE ts[1] \o Glue(Tail(ts))
    IN  Strip(Glue(text_lines))

\* text = " ".join(text_lines).strip()
EntryText == Strip(JoinSpace(text_lines))

\* start_time and end_time: round(start_ms / 1000) if round_to_seconds.
InUnit(t) == IF round_to_seconds THEN RoundDiv(t, 1000) ELSE t

\* After the inner loop: entries.append({...}). The history records the
\* timestamp line and the text lines the entry was read from.
AppendEntry ==
    /\ sbv_entries' = Append(sbv_entries,
                             MakeEntry(entry_id, InUnit(start_end[1]),
                                       InUnit(start_end[2]), EntryText))
    /\ sbv_runs' = Append(sbv_runs,
                          [stamp |-> text_from[1], text |-> Tail(text_from)])

\* if not stripped or TIMESTAMP_PATTERN.match(stripped)
StopsText_BlankOnly == line = << >>

StopsText == line = << >> \/ IsTimestamp(line)

\* Inner loop, break on an empty line or a timestamp: the line is left to
\* the outer loop and the entry is appended.
TextStop ==
    /\ sbv_pc = "text"
    /\ line_i < Len(lines)
    /\ StopsText
    /\ AppendEntry
    /\ sbv_pc' = "scan"
    /\ UNCHANGED << content, round_to_seconds, lines, line_i, entry_id,
                    start_end, text_lines, text_from, skipped,
                    merge_vars, codec_vars, cli_vars, chunk_vars >>

\* Inner loop: text_lines.append(text_line.strip()), i += 1.
TextAppend ==
    /\ sbv_pc = "text"
    /\ line_i < Len(lines)
    /\ ~StopsText
    /\ text_lines' = Append(text_lines, line)
    /\ text_from' = Append(text_from, line_i)
    /\ line_i' = line_i + 1
    /\ UNCHANGED << content, round_to_seconds, lines, entry_id, sbv_entries,
                    start_end, sbv_pc, sbv_runs, skipped,
                    merge_vars, codec_vars, cli_vars, chunk_vars >>

\* Inner loop left by the end of the lines: the entry is appended.
TextExhausted ==
    /\ sbv_pc = "text"
    /\ ~(line_i < Len(lines))
    /\ AppendEntry
    /\ sbv_pc' = "scan"
    /\ UNCHANGED << content, round_to_seconds, lines, line_i, entry_id,
                    start_end, text_lines, text_from, skipped,
                    merge_vars, codec_vars, cli_vars, chunk_vars >>

\* Outer loop exit: return entries.
ReturnEntries ==
    /\ sbv_pc = "scan"
    /\ ~(line_i < Len(lines))
    /\ sbv_pc' = "done"
    /\ UNCHANGED << content, round_to_seconds, lines, line_i, entry_id,
                    sbv_entries, start_end, text_lines, text_from, sbv_runs,
                    skipped, merge_vars, codec_vars, cli_vars, chunk_vars >>

\* One call of parse_sbv.
NextSbv ==
    \/ SkipEmpty
    \/ ReadTimestamp
    \/ SkipOther
    \/ TextStop
    \/ TextAppend
    \/ TextExhausted
    \/ ReturnEntries

SpecSbv == InitSbv /\ [][NextSbv]_vars

\* Line j (0-based) of the text, trimmed, matches the timestamp pattern.
Stamped(j) == IsTimestamp(Strip(At(lines, j)))

\* Line j (0-based) of the text is empty once trimmed.
Blank(j) == Strip(At(lines, j)) = << >>

\* The indices of the timestamp lines, in the order of the text.
StampIndices ==
    LET RECURSIVE From(_)
        From(j) == IF j >= Len(lines) THEN << >>
                   ELSE (IF Stamped(j) THEN << j >> ELSE << >>) \o From(j + 1)
    IN  From(0)

\* The first index from j on that is past the end, blank or a timestamp.
RECURSIVE BlockEnd(_)
BlockEnd(j) ==
    IF j >= Len(lines) \/ Blank(j) \/ Stamped(j) THEN j ELSE BlockEnd(j + 1)

\* The indices of the lines that immediately follow timestamp line t, up to
\* the first blank line, the next timestamp line or the end of the text.
TextIndices(t) == [n \in 1 .. BlockEnd(t + 1) - (t + 1) |-> t + n]

SbvDone == sbv_pc = "done"

\* C15: parse_sbv gives exactly one entry per line that matches the
\* timestamp pattern, in scan order, with ids 1..N; a timestamp line directly
\* followed by a blank line, by another timestamp line or by the end of the
\* text gives an entry with an empty text; an empty content gives the empty
\* list.
C15_OneEntryPerTimestampLine ==
    /\ \A k \in 1 .. Len(sbv_entries) : sbv_entries[k].id = k
    /\ SbvDone =>
         /\ Len(sbv_entries) = Len(StampIndices)
         /\ Len(sbv_runs) = Len(StampIndices)
         /\ \A k \in 1 .. Len(StampIndices) :
              LET t == StampIndices[k]
                  times == parse_timestamp(At(lines, t)).value
              IN  /\ sbv_runs[k].stamp = t
                  /\ sbv_entries[k].start = InUnit(times[1])
                  /\ sbv_entries[k].end = InUnit(times[2])
                  /\ (t + 1 >= Len(lines) \/ Blank(t + 1) \/ Stamped(t + 1))
                        => sbv_entries[k].text = << >>
         /\ content = << >> => sbv_entries = << >>

\* C15 witness: three timestamp lines, one followed by a timestamp line, one
\* by a blank line and one by the end of the text, gave three entries with
\* empty texts.
C15_Witness ==
    /\ SbvDone
    /\ Len(lines) = 4
    /\ Stamped(0) /\ Stamped(1) /\ Blank(2) /\ Stamped(3)
    /\ Len(sbv_entries) = 3
    /\ \A k \in 1 .. 3 : sbv_entries[k].text = << >>
    /\ sbv_entries[3].id = 3

\* C16: the text of an entry is the trimmed lines that immediately follow
\* its timestamp line, up to the first blank line, the next timestamp line
\* or the end of the text, joined with one space; a non-timestamp line
\* before the first timestamp line, or after a blank line and before the
\* next timestamp line, is passed over and is part of no entry.
C16_TextIsFollowingLines ==
    SbvDone =>
        /\ \A k \in 1 .. Len(sbv_entries) :
             LET from == TextIndices(sbv_runs[k].stamp)
             IN  /\ sbv_runs[k].text = from
                 /\ sbv_entries[k].text =
                        JoinSpace([n \in 1 .. Len(from) |->
                                       Strip(At(lines, from[n]))])
        /\ \A j \in 0 .. Len(lines) - 1 :
             (/\ ~Stamped(j)
              /\ \/ \A t \in 0 .. j - 1 : ~Stamped(t)
                 \/ \E b \in 0 .. j - 1 :
                        Blank(b) /\ \A t \in b .. j - 1 : ~Stamped(t))
                => /\ j \in Range(skipped)
                   /\ \A k \in 1 .. Len(sbv_runs) :
                        j \notin Range(sbv_runs[k].text)

\* C16 witness: a text line before the first timestamp line was passed over
\* and the two lines after the timestamp line, one of them with blanks
\* around it, gave the text "a b c".
C16_Witness ==
    /\ SbvDone
    /\ Len(lines) = 4
    /\ skipped = << 0 >>
    /\ ~Blank(0)
    /\ Len(sbv_entries) = 1
    /\ At(lines, 3) = << " ", "b", " ", "c", " " >>
    /\ sbv_entries[1].text = << "a", " ", "b", " ", "c" >>

\* C17: parse_sbv raises on no line that is not a well-formed timestamp:
\* such a line is taken as text or passed over, and every timestamp line
\* before and after it gives its entry; nothing but a ValueError of
\* parse_timestamp on a timestamp line makes parse_sbv raise, and then it
\* returns no list (on these texts it never raises).
C17_NoErrorOnOtherLines ==
    /\ sbv_pc = "raised" =>
         /\ line_i < Len(lines)
         /\ Stamped(line_i)
         /\ parse_timestamp(line).raised
    /\ sbv_pc # "raised"
    /\ SbvDone =>
         \A j \in 0 .. Len(lines) - 1 :
             IF Stamped(j)
             THEN \E k \in 1 .. Len(sbv_runs) : sbv_runs[k].stamp = j
             ELSE (j \in Range(skipped))
                      # (\E k \in 1 .. Len(sbv_runs) :
                            j \in Range(sbv_runs[k].text))

\* C17 witness: a line that is nearly a timestamp stood after each of two
\* timestamp lines: each was taken as the text of its entry, and both
\* entries were produced.
C17_Witness ==
    /\ SbvDone
    /\ Len(lines) = 4
    /\ Stamped(0) /\ Stamped(2)
    /\ At(lines, 1) = WriteTimestamp(<< 0, 0, 1, 0 >>, << 0, 0, 3, 0 >>, "dash")
    /\ At(lines, 3) = At(lines, 1)
    /\ Len(sbv_entries) = 2
    /\ sbv_entries[1].text = At(lines, 1)
    /\ sbv_entries[2].text = At(lines, 1)

\* ------------------------------------------------- main of cli.py, cli_txt.py

\* The en dash (U+2013) of cli_txt.py, written by its name: the strings of
\* this module hold ASCII characters only.
EnDash == "EN DASH"

\* The SBV files of the tests, their texts shortened: one entry 1.2 s ..
\* 3.8 s; two entries 0 s .. 5 s and 5 s .. 10 s; three entries of 2 s with
\* no newline at the end; a file that begins with a line of text and holds
\* an entry of 0.5 s followed by one of 4.5 s; and an empty file.
SbvFiles ==
    { JoinLines(<< WriteTimestamp(<< 0, 0, 1, 200 >>, << 0, 0, 3, 800 >>, "plain"),
                   << "a" >>, << >>, << >> >>),
      JoinLines(<< WriteTimestamp(<< 0, 0, 0, 0 >>, << 0, 0, 5, 0 >>, "plain"),
                   << "a" >>, << >>,
                   WriteTimestamp(<< 0, 0, 5, 0 >>, << 0, 0, 10, 0 >>, "plain"),
                   << " ", "b", " ", "c", " " >>, << >>, << >> >>),
      JoinLines(<< WriteTimestamp(<< 0, 0, 1, 0 >>, << 0, 0, 3, 0 >>, "plain"),
                   << "a" >>, << >>,
                   WriteTimestamp(<< 0, 0, 4, 0 >>, << 0, 0, 6, 0 >>, "plain"),
                   << "b" >>, << >>,
                   WriteTimestamp(<< 0, 0, 7, 0 >>, << 0, 0, 9, 0 >>, "plain"),
                   << "c" >> >>),
      JoinLines(<< << "a" >>,
                   WriteTimestamp(<< 0, 0, 0, 0 >>, << 0, 0, 0, 500 >>, "plain"),
                   << "a" >>,
                   WriteTimestamp(<< 0, 0, 0, 500 >>, << 0, 0, 5, 0 >>, "plain"),
                   << "b" >> >>),
      << >> }

\* What can be at the input path: nothing, something that cannot be read as
\* text (a directory, a file without permission or not UTF-8), or a file.
InputFiles ==
    { [exists |-> FALSE, readable |-> FALSE, content |-> << >>],
      [exists |-> TRUE, readable |-> FALSE, content |-> << >>] }
    \cup { [exists |-> TRUE, readable |-> TRUE, content |-> c] : c \in SbvFiles }

\* -m: absent (None, the empty sequence here) or an integer.
MergeValues == { << >> } \cup { << m >> : m \in { -1, 0, 3, 10 } }

\* The arguments argparse accepts. --indent exists in svb2json only; -f not
\* given is the default HH:MM:SS; -o is absent, a path that can be written
\* or a path that cannot.
ArgsOf(p) ==
    [indent : IF p = "svb2json" THEN { -1, 0, 2 } ELSE { 2 },
     seconds : BOOLEAN,
     merge : MergeValues,
     format : FormatTypes,
     output : { "none", "file", "unwritable" }]

\* main() entered, after parser.parse_args().
InitCli ==
    /\ prog \in { "svb2json", "svb2txt" }
    /\ cli_args \in ArgsOf(prog)
    /\ input_file \in InputFiles
    /\ main_entries = << >>
    /\ output_text = << >>
    /\ written = NothingWritten
    /\ exit_code = -1
    /\ cli_pc = "start"
    /\ did = << >>
    /\ MergeIdle
    /\ CodecIdle
    /\ SbvIdle
    /\ ChunkIdle

\* if args.indent is not None and args.indent < 0 (cli.py only)
IndentInvalid == prog = "svb2json" /\ cli_args.indent < 0

\* Bug variant: a merge value of 0 passes the validation.
MergeInvalid_NegativeOnly ==
    IF cli_args.merge = << >> THEN FALSE ELSE cli_args.merge[1] < 0

\* if args.merge is not None and args.merge <= 0
MergeInvalid ==
    IF cli_args.merge = << >> THEN FALSE ELSE cli_args.merge[1] <= 0

\* return 1
Fail ==
    /\ exit_code' = 1
    /\ cli_pc' = "exit"

\* Validate indent argument: return 1.
RejectIndent ==
    /\ cli_pc = "start"
    /\ IndentInvalid
    /\ Fail
    /\ UNCHANGED << prog, cli_args, input_file, main_entries, output_text,
                    written, did, merge_vars, codec_vars, sbv_vars,
                    chunk_vars >>

\* Validate merge argument: return 1.
RejectMerge ==
    /\ cli_pc = "start"
    /\ ~IndentInvalid
    /\ MergeInvalid
    /\ Fail
    /\ UNCHANGED << prog, cli_args, input_file, main_entries, output_text,
                    written, did, merge_vars, codec_vars, sbv_vars,
                    chunk_vars >>

\* if not input_path.exists(): return 1.
InputNotFound ==
    /\ cli_pc = "start"
    /\ ~IndentInvalid
    /\ ~MergeInvalid
    /\ ~input_file.exists
    /\ Fail
    /\ UNCHANGED << prog, cli_args, input_file, main_entries, output_text,
                    written, did, merge_vars, codec_vars, sbv_vars,
                    chunk_vars >>

\* input_path.read_text raises OSError or UnicodeDecodeError: return 1.
ReadError ==
    /\ cli_pc = "start"
    /\ ~IndentInvalid
    /\ ~MergeInvalid
    /\ input_file.exists
    /\ ~input_file.readable
    /\ Fail
    /\ UNCHANGED << prog, cli_args, input_file, main_entries, output_text,
                    written, did, merge_vars, codec_vars, sbv_vars,
                    chunk_vars >>

\* content = input_path.read_text(...); parse_sbv(content,
\* round_to_seconds=args.seconds) is entered.
CallParseSbv ==
    /\ cli_pc = "start"
    /\ ~IndentInvalid
    /\ ~MergeInvalid
    /\ input_file.exists
    /\ input_file.readable
    /\ content' = input_file.content
    /\ round_to_seconds' = cli_args.seconds
    /\ lines' = SplitOn(input_file.content, { "\n" })
    /\ line_i' = 0
    /\ entry_id' = 0
    /\ sbv_entries' = << >>
    /\ start_end' = << 0, 0 >>
    /\ text_lines' = << >>
    /\ sbv_pc' = "scan"
    /\ text_from' = << >>
    /\ sbv_runs' = << >>
    /\ skipped' = << >>
    /\ cli_pc' = "parse_sbv"
    /\ did' = Append(did, "parse_sbv")
    /\ UNCHANGED << prog, cli_args, input_file, main_entries, output_text,
                    written, exit_code, merge_vars, codec_vars, chunk_vars >>

\* parse_sbv is left: entries = its result, or except ValueError: return 1.
AfterParseSbv ==
    /\ cli_pc = "parse_sbv"
    /\ sbv_pc \in { "done", "raised" }
    /\ IF sbv_pc = "raised"
       THEN Fail /\ UNCHANGED main_entries
       ELSE /\ main_entries' = sbv_entries
            /\ cli_pc' = "parsed"
            /\ UNCHANGED exit_code
    /\ UNCHANGED << prog, cli_args, input_file, output_text, written, did,
                    merge_vars, codec_vars, sbv_vars, chunk_vars >>

\* if args.merge: neither None nor 0.
MergeRequested ==
    IF cli_args.merge = << >> THEN FALSE ELSE cli_args.merge[1] # 0

\* if args.merge: merge_subtitles(entries, args.merge,
\* use_seconds=args.seconds) is entered.
CallMergeSubtitles ==
    /\ cli_pc = "parsed"
    /\ MergeRequested
    /\ LET l == Locals(main_entries, cli_args.merge[1], cli_args.seconds)
       IN  /\ entries' = l.entries
           /\ duration_seconds' = l.duration_seconds
           /\ use_seconds' = l.use_seconds
           /\ duration' = l.duration
           /\ min_duration_threshold' = l.min_duration_threshold
           /\ merged' = l.merged
           /\ i' = l.i
           /\ current_group_texts' = l.current_group_texts
           /\ current_group_start' = l.current_group_start
           /\ target_end_time' = l.target_end_time
           /\ pc' = l.pc
           /\ current_group_members' = l.current_group_members
           /\ runs' = l.runs
    /\ call' = 1
    /\ cli_pc' = "merge_subtitles"
    /\ did' = Append(did, "merge_subtitles")
    /\ UNCHANGED << first_entries, first_merged, prog, cli_args, input_file,
                    main_entries, output_text, written, exit_code,
                    codec_vars, sbv_vars, chunk_vars >>

\* merge_subtitles has returned: entries = its result.
AfterMergeSubtitles ==
    /\ cli_pc = "merge_subtitles"
    /\ pc = "done"
    /\ main_entries' = merged
    /\ cli_pc' = "format"
    /\ UNCHANGED << prog, cli_args, input_file, output_text, written,
                    exit_code, did, merge_vars, codec_vars, sbv_vars,
                    chunk_vars >>

\* if args.merge is false (None; 0 was refused): nothing is merged.
SkipMerge ==
    /\ cli_pc = "parsed"
    /\ ~MergeRequested
    /\ cli_pc' = "format"
    /\ UNCHANGED << prog, cli_args, input_file, main_entries, output_text,
                    written, exit_code, did, merge_vars, codec_vars,
                    sbv_vars, chunk_vars >>

\* if timestamp_format != "Mi" or use_seconds, of both programs
Reformats(timestamp_format, us) == timestamp_format # "Mi" \/ us

\* Bug variant: seconds are given to format_timestamp as they are.
Formatted_SecondsAsMs(t, timestamp_format, us) ==
    IF Reformats(timestamp_format, us)
    THEN format_timestamp(t, timestamp_format).value
    ELSE IntValue(t)

\* format_timestamp(t if not use_seconds else t * 1000, timestamp_format)
\* when the condition holds, t itself otherwise. The format kinds argparse
\* lets through never make format_timestamp raise.
Formatted(t, timestamp_format, us) ==
    IF Reformats(timestamp_format, us)
    THEN format_timestamp(IF ~us THEN t ELSE t * 1000, timestamp_format).value
    ELSE IntValue(t)

\* json.dumps of an int and of a str (of the characters of this model, none
\* of which is escaped).
JsonInt(n) == StrOf(n)
JsonStr(str) == << "\"" >> \o str \o << "\"" >>
JsonValue(v) == IF v.type = "int" THEN JsonInt(v.int) ELSE JsonStr(v.str)

\* json.dumps(entries, ...) after the loop that formats start and end: the
\* members of each object as JSON texts. The brackets, commas and the
\* indentation of the document are not modelled.
JsonOutput ==
    [k \in 1 .. Len(main_entries) |->
        [id |-> JsonInt(main_entries[k].id),
         start |-> JsonValue(Formatted(main_entries[k].start, cli_args.format,
                                       cli_args.seconds)),
         end |-> JsonValue(Formatted(main_entries[k].end, cli_args.format,
                                     cli_args.seconds)),
         text |-> JsonStr(main_entries[k].text)]]

\* An int or a str in an f-string.
InFString(v) == IF v.type = "int" THEN StrOf(v.int) ELSE v.str

\* format_entry_as_text(entry, timestamp_format, use_seconds)
format_entry_as_text(e, timestamp_format, us) ==
    << "[" >> \o InFString(Formatted(e.start, timestamp_format, us))
        \o << EnDash >> \o InFString(Formatted(e.end, timestamp_format, us))
        \o << "]", " " >> \o e.text

\* text_lines of cli_txt.py
TextLines ==
    [k \in 1 .. Len(main_entries) |->
        format_entry_as_text(main_entries[k], cli_args.format, cli_args.seconds)]

\* cli.py: the entries are formatted and json_output is made.
FormatJson ==
    /\ cli_pc = "format"
    /\ prog = "svb2json"
    /\ output_text' = JsonOutput
    /\ cli_pc' = "write"
    /\ UNCHANGED << prog, cli_args, input_file, main_entries, written,
                    exit_code, did, merge_vars, codec_vars, sbv_vars,
                    chunk_vars >>

\* cli_txt.py: text_output = "\n".join(text_lines)
FormatText ==
    /\ cli_pc = "format"
    /\ prog = "svb2txt"
    /\ output_text' = JoinLines(TextLines)
    /\ cli_pc' = "write"
    /\ UNCHANGED << prog, cli_args, input_file, main_entries, written,
                    exit_code, did, merge_vars, codec_vars, sbv_vars,
                    chunk_vars >>

\* What reaches the file or the standard output: the JSON document, or the
\* text followed by a newline.
Body == IF prog = "svb2txt" THEN output_text \o << "\n" >> ELSE output_text

\* args.output.write_text(...) succeeds: return 0.
WriteFile ==
    /\ cli_pc = "write"
    /\ cli_args.output = "file"
    /\ written' = [to |-> "file", body |-> Body]
    /\ exit_code' = 0
    /\ cli_pc' = "exit"
    /\ UNCHANGED << prog, cli_args, input_file, main_entries, output_text,
                    did, merge_vars, codec_vars, sbv_vars, chunk_vars >>

\* args.output.write_text(...) raises OSError: return 1.
WriteError ==
    /\ cli_pc = "write"
    /\ cli_args.output = "unwritable"
    /\ Fail
    /\ UNCHANGED << prog, cli_args, input_file, main_entries, output_text,
                    written, did, merge_vars, codec_vars, sbv_vars,
                    chunk_vars >>

\* No -o: print(...): return 0.
PrintOutput ==
    /\ cli_pc = "write"
    /\ cli_args.output = "none"
    /\ written' = [to |-> "stdout", body |-> Body]
    /\ exit_code' = 0
    /\ cli_pc' = "exit"
    /\ UNCHANGED << prog, cli_args, input_file, main_entries, output_text,
                    did, merge_vars, codec_vars, sbv_vars, chunk_vars >>

\* One run of svb2json or svb2txt, the calls of parse_sbv and
\* merge_subtitles included.
NextCli ==
    \/ RejectIndent
    \/ RejectMerge
    \/ InputNotFound
    \/ ReadError
    \/ CallParseSbv
    \/ NextSbv
    \/ AfterParseSbv
    \/ CallMergeSubtitles
    \/ Next
    \/ AfterMergeSubtitles
    \/ SkipMerge
    \/ FormatJson
    \/ FormatText
    \/ WriteFile
    \/ WriteError
    \/ PrintOutput

SpecCli == InitCli /\ [][NextCli]_vars

\* main has returned.
Exited == cli_pc = "exit"

\* C12 as claimed: when svb2json is run with -s and without -f (the format
\* is the default HH:MM:SS), the start and end of every output entry are
\* JSON integers, the whole seconds of the entry (1 for a start of 1200 ms,
\* 4 for an end of 3800 ms; 0 and 10 for the entry merged with -s -m 10).
C12_SecondsAreIntegers ==
    (/\ Exited
     /\ exit_code = 0
     /\ prog = "svb2json"
     /\ cli_args.seconds
     /\ cli_args.format = "HH:MM:SS") =>
        /\ Len(written.body) = Len(main_entries)
        /\ \A k \in 1 .. Len(main_entries) :
             /\ written.body[k].start = JsonInt(main_entries[k].start)
             /\ written.body[k].end = JsonInt(main_entries[k].end)

\* C12 witness: svb2json -s on the file whose entry runs from 1200 ms to
\* 3800 ms returned 0 and wrote "00:00:01" and "00:00:04", two JSON strings,
\* for the entry whose start and end are 1 and 4 seconds.
C12_Witness ==
    /\ Exited
    /\ exit_code = 0
    /\ prog = "svb2json"
    /\ cli_args.seconds
    /\ cli_args.format = "HH:MM:SS"
    /\ cli_args.merge = << >>
    /\ Len(main_entries) = 1
    /\ main_entries[1].start = 1
    /\ main_entries[1].end = 4
    /\ written.body[1].start =
           << "\"", "0", "0", ":", "0", "0", ":", "0", "1", "\"" >>
    /\ written.body[1].end =
           << "\"", "0", "0", ":", "0", "0", ":", "0", "4", "\"" >>

\* The cases in which the programs refuse to run, as the arguments and the
\* input path give them.
BadIndent == prog = "svb2json" /\ cli_args.indent < 0
BadMerge == cli_args.merge # << >> /\ cli_args.merge[1] <= 0
BadInput == ~input_file.exists \/ ~input_file.readable

\* C13: when the merge value is <= 0, the indent is negative (svb2json) or
\* the input path does not exist or cannot be read, the program returns 1,
\* writes nothing to the output file or the standard output and calls
\* neither parse_sbv nor merge_subtitles; 0 is returned only once the output
\* has been written.
C13_RefusedRunsWriteNothing ==
    /\ (BadIndent \/ BadMerge \/ BadInput) =>
         /\ written = NothingWritten
         /\ did = << >>
         /\ sbv_pc = "idle"
         /\ pc = "idle"
         /\ exit_code # 0
         /\ IF cli_pc = "start"
            THEN /\ ENABLED (RejectIndent \/ RejectMerge \/ InputNotFound
                                \/ ReadError)
                 /\ ~ENABLED CallParseSbv
            ELSE Exited /\ exit_code = 1
    /\ Exited <=> exit_code # -1
    /\ exit_code = 0 =>
         /\ written.to = (IF cli_args.output = "none" THEN "stdout" ELSE "file")
         /\ written.body = Body
         /\ did[1] = "parse_sbv"
    /\ written.to # "nothing" => exit_code = 0

\* C13 witness: svb2json -m 0 on a readable file returned 1, wrote nothing
\* and parsed nothing.
C13_Witness ==
    /\ Exited
    /\ exit_code = 1
    /\ prog = "svb2json"
    /\ cli_args.merge = << 0 >>
    /\ cli_args.indent = 2
    /\ input_file.readable
    /\ input_file.content # << >>
    /\ written = NothingWritten
    /\ did = << >>

\* The formatted timestamp of t in an f-string.
Shown(t) == InFString(format_timestamp(t, cli_args.format).value)

\* The start or end of an entry in milliseconds.
InMillis(t) == IF cli_args.seconds THEN t * 1000 ELSE t

\* C19: svb2txt renders one line per entry, in the order of the entries,
\* each "[start-end] text" with an en dash between the formatted start and
\* end; with Mi outside seconds mode start and end are the milliseconds as
\* they are; in seconds mode an entry (s, e) is rendered as the entry
\* (s * 1000, e * 1000) is rendered in milliseconds mode with the same
\* format.
C19_TextLines ==
    (prog = "svb2txt" /\ written.to # "nothing") =>
        LET ls == IF main_entries = << >> THEN << >>
                  ELSE SplitOn(output_text, { "\n" })
        IN  /\ written.body = output_text \o << "\n" >>
            /\ main_entries = << >> => output_text = << >>
            /\ Len(ls) = Len(main_entries)
            /\ \A k \in 1 .. Len(main_entries) :
                 LET e == main_entries[k]
                 IN  /\ ls[k] = << "[" >> \o Shown(InMillis(e.start))
                                   \o << EnDash >> \o Shown(InMillis(e.end))
                                   \o << "]", " " >> \o e.text
                     /\ (cli_args.format = "Mi" /\ ~cli_args.seconds) =>
                          ls[k] = << "[" >> \o StrOf(e.start) \o << EnDash >>
                                      \o StrOf(e.end) \o << "]", " " >> \o e.text
                     /\ cli_args.seconds =>
                          ls[k] = format_entry_as_text(
                                      [e EXCEPT !.start = e.start * 1000,
                                                !.end = e.end * 1000],
                                      cli_args.format, FALSE)

\* C19 witness: svb2txt -s on the file of three entries wrote three lines,
\* the first of them [00:00:01-00:00:03] a.
C19_Witness ==
    /\ prog = "svb2txt"
    /\ written.to = "file"
    /\ cli_args.seconds
    /\ cli_args.format = "HH:MM:SS"
    /\ Len(main_entries) = 3
    /\ main_entries[1].start = 1
    /\ Len(SplitOn(output_text, { "\n" })) = 3
    /\ SplitOn(output_text, { "\n" })[1] =
           << "[", "0", "0", ":", "0", "0", ":", "0", "1", EnDash,
              "0", "0", ":", "0", "0", ":", "0", "3", "]", " ", "a" >>


\* ------------------------------------------------------ chunk_json_content
\*
\* chunk_json_content(data, max_tokens, model) of chunk2tokens.py, one action
\* per branch of an iteration of its for loops. A JSON array is a sequence of
\* members; a JSON object is the sequence of its << key, value >> pairs in
\* insertion order, its keys distinct; a primitive is the one value of a
\* one-element sequence. When chunk_pc = "returned", chunks is the list the
\* function returns.
\*
\* count_tokens is not modelled by a tokenizer: every call of it yields some
\* count in TokenCounts, chosen freely at each call, which covers every
\* token-counting function.

Items == { "a", "b" }
Keys == { "k1", "k2", "k3" }
TokenCounts == 0 .. MaxTokens

JsonArrays == UNION { [1 .. n -> Items] : n \in 0 .. MaxItems }

KeysOf(obj) == { obj[k][1] : k \in 1 .. Len(obj) }

JsonObjects ==
    { obj \in UNION { [1 .. n -> Keys \X Items] : n \in 0 .. MaxItems } :
        \A j, k \in 1 .. Len(obj) : j # k => obj[j][1] # obj[k][1] }

Primitives == { << v >> : v \in Items }

\* Entry of chunk_json_content: chunks = [], then current_chunk = [] or {} and
\* current_tokens = count_tokens("[]") or count_tokens("{}").
InitChunk ==
    /\ \E t \in { "list", "dict", "other" } :
        /\ data_type = t
        /\ data \in CASE t = "list" -> JsonArrays
                      [] t = "dict" -> JsonObjects
                      [] OTHER -> Primitives
        /\ current_tokens \in IF t = "other" THEN { 0 } ELSE TokenCounts
        /\ current_count = IF t = "list" THEN << current_tokens >> ELSE << >>
    /\ max_tokens \in TokenCounts
    /\ chunks = << >>
    /\ current_chunk = << >>
    /\ item_k = 0
    /\ chunk_pc = "loop"
    /\ item_counts = << >>
    /\ chunk_counts = << >>
    /\ SaveIdle
    /\ MergeIdle
    /\ CodecIdle
    /\ SbvIdle
    /\ CliIdle

\* item of "for item in data", and (key, value) of "for key, value in
\* data.items()".
item == At(data, item_k)

\* Bug variant: the pending chunk is dropped instead of being appended.
Flushed_Dropped(cs, cur) == cs

\* if current_chunk: chunks.append(current_chunk)
Flushed(cs, cur) == IF cur # << >> THEN Append(cs, cur) ELSE cs

\* Bug variant: the budget is not looked at, every item joins the pending
\* chunk.
Overflows_Never(test_tokens, cur) == FALSE

\* if test_tokens > max_tokens and current_chunk
Overflows(test_tokens, cur) == test_tokens > max_tokens /\ cur # << >>

\* {**current_chunk, key: value} and current_chunk[key] = value: the value of
\* a key already present is replaced in place, a new key goes last.
DictPut(obj, pair) ==
    IF pair[1] \in KeysOf(obj)
    THEN [k \in 1 .. Len(obj) |->
            IF obj[k][1] = pair[1] THEN pair ELSE obj[k]]
    ELSE Append(obj, pair)

\* List branch, item_tokens > max_tokens: the pending chunk is closed and the
\* item becomes a chunk of its own.
ListOversize ==
    /\ chunk_pc = "loop"
    /\ data_type = "list"
    /\ item_k < Len(data)
    /\ \E item_tokens \in TokenCounts :
        /\ item_tokens > max_tokens
        /\ chunks' = Append(Flushed(chunks, current_chunk), << item >>)
        /\ current_chunk' = << >>
        /\ IF current_chunk # << >>
           THEN /\ current_tokens' \in TokenCounts
                /\ current_count' = << current_tokens' >>
           ELSE /\ current_tokens' = current_tokens
                /\ current_count' = current_count
        /\ item_counts' = Append(item_counts, item_tokens)
        /\ chunk_counts' =
                Append(IF current_chunk # << >>
                       THEN Append(chunk_counts, current_count)
                       ELSE chunk_counts,
                       << >>)
    /\ item_k' = item_k + 1
    /\ UNCHANGED << data, data_type, max_tokens, chunk_pc, save_vars, merge_vars,
                    codec_vars, sbv_vars, cli_vars >>

\* List branch, test_tokens > max_tokens and current_chunk: the pending chunk
\* is closed and the item starts the next one.
ListSplit ==
    /\ chunk_pc = "loop"
    /\ data_type = "list"
    /\ item_k < Len(data)
    /\ \E item_tokens, test_tokens \in TokenCounts :
        /\ ~(item_tokens > max_tokens)
        /\ Overflows(test_tokens, current_chunk)
        /\ chunks' = Append(chunks, current_chunk)
        /\ current_chunk' = << item >>
        /\ current_tokens' = item_tokens
        /\ item_counts' = Append(item_counts, item_tokens)
        /\ chunk_counts' = Append(chunk_counts, current_count)
        /\ current_count' = << >>
    /\ item_k' = item_k + 1
    /\ UNCHANGED << data, data_type, max_tokens, chunk_pc, save_vars, merge_vars,
                    codec_vars, sbv_vars, cli_vars >>

\* List branch, else: the item joins the pending chunk.
ListAppend ==
    /\ chunk_pc = "loop"
    /\ data_type = "list"
    /\ item_k < Len(data)
    /\ \E item_tokens, test_tokens \in TokenCounts :
        /\ ~(item_tokens > max_tokens)
        /\ ~Overflows(test_tokens, current_chunk)
        /\ current_chunk' = Append(current_chunk, item)
        /\ current_tokens' = test_tokens
        /\ item_counts' = Append(item_counts, item_tokens)
        /\ current_count' = << test_tokens >>
    /\ item_k' = item_k + 1
    /\ UNCHANGED << data, data_type, max_tokens, chunks, chunk_pc,
                    chunk_counts, save_vars, merge_vars, codec_vars, sbv_vars,
                    cli_vars >>

\* After either loop: the pending chunk is closed, and the function returns
\* chunks, or [data] when chunks is empty.
Returned_chunks ==
    LET cs == Flushed(chunks, current_chunk)
    IN  IF cs # << >> THEN cs ELSE << data >>

ListFinish ==
    /\ chunk_pc = "loop"
    /\ data_type = "list"
    /\ item_k = Len(data)
    /\ chunks' = Returned_chunks
    /\ chunk_pc' = "returned"
    /\ chunk_counts' =
            IF current_chunk # << >> \/ chunks = << >>
            THEN Append(chunk_counts, current_count)
            ELSE chunk_counts
    /\ UNCHANGED << data, data_type, max_tokens, current_chunk,
                    current_tokens, item_k, item_counts, current_count,
                    save_vars, merge_vars, codec_vars, sbv_vars, cli_vars >>

\* Dict branch, item_tokens > max_tokens.
DictOversize ==
    /\ chunk_pc = "loop"
    /\ data_type = "dict"
    /\ item_k < Len(data)
    /\ \E item_tokens \in TokenCounts :
        /\ item_tokens > max_tokens
        /\ chunks' = Append(Flushed(chunks, current_chunk), << item >>)
        /\ current_chunk' = << >>
    /\ item_k' = item_k + 1
    /\ UNCHANGED << data, data_type, max_tokens, current_tokens, chunk_pc,
                    item_counts, current_count, chunk_counts, save_vars, merge_vars,
                    codec_vars, sbv_vars, cli_vars >>

\* Dict branch, test_tokens > max_tokens and current_chunk.
DictSplit ==
    /\ chunk_pc = "loop"
    /\ data_type = "dict"
    /\ item_k < Len(data)
    /\ \E item_tokens, test_tokens \in TokenCounts :
        /\ ~(item_tokens > max_tokens)
        /\ Overflows(test_tokens, current_chunk)
        /\ chunks' = Append(chunks, current_chunk)
        /\ current_chunk' = << item >>
    /\ item_k' = item_k + 1
    /\ UNCHANGED << data, data_type, max_tokens, current_tokens, chunk_pc,
                    item_counts, current_count, chunk_counts, save_vars, merge_vars,
                    codec_vars, sbv_vars, cli_vars >>

\* Dict branch, else: current_chunk[key] = value.
DictAppend ==
    /\ chunk_pc = "loop"
    /\ data_type = "dict"
    /\ item_k < Len(data)
    /\ \E item_tokens, test_tokens \in TokenCounts :
        /\ ~(item_tokens > max_tokens)
        /\ ~Overflows(test_tokens, current_chunk)
        /\ current_chunk' = DictPut(current_chunk, item)
    /\ item_k' = item_k + 1
    /\ UNCHANGED << data, data_type, max_tokens, chunks, current_tokens,
                    chunk_pc, item_counts, current_count, chunk_counts,
                    save_vars, merge_vars, codec_vars, sbv_vars, cli_vars >>

DictFinish ==
    /\ chunk_pc = "loop"
    /\ data_type = "dict"
    /\ item_k = Len(data)
    /\ chunks' = Returned_chunks
    /\ chunk_pc' = "returned"
    /\ UNCHANGED << data, data_type, max_tokens, current_chunk,
                    current_tokens, item_k, item_counts, current_count,
                    chunk_counts, save_vars, merge_vars, codec_vars, sbv_vars,
                    cli_vars >>

\* else: a primitive is returned as the single chunk.
PrimitiveChunk ==
    /\ chunk_pc = "loop"
    /\ data_type = "other"
    /\ chunks' = << data >>
    /\ chunk_pc' = "returned"
    /\ UNCHANGED << data, data_type, max_tokens, current_chunk,
                    current_tokens, item_k, item_counts, current_count,
                    chunk_counts, save_vars, merge_vars, codec_vars, sbv_vars,
                    cli_vars >>

NextChunk ==
    \/ ListOversize
    \/ ListSplit
    \/ ListAppend
    \/ ListFinish
    \/ DictOversize
    \/ DictSplit
    \/ DictAppend
    \/ DictFinish
    \/ PrimitiveChunk

SpecChunk == InitChunk /\ [][NextChunk]_vars

ChunkReturned == chunk_pc = "returned"

\* The chunks k and j of a returned list of objects have no key in common.
DisjointKeys ==
    \A j, k \in 1 .. Len(chunks) :
        j # k => KeysOf(chunks[j]) \cap KeysOf(chunks[k]) = { }

\* C20: chunk_json_content preserves all members, whatever the token counts.
\* For a JSON array every returned chunk is a list of members, no chunk is
\* empty when the array is non-empty, and the chunks concatenated in order are
\* exactly the array. For a JSON object every returned chunk is an object
\* (pairs with distinct keys), the chunks have pairwise disjoint keys, and
\* their pairs in order are exactly the pairs of the input object.
C20_ChunksPreserveMembers ==
    ChunkReturned =>
        /\ data_type = "list" =>
            /\ \A k \in 1 .. Len(chunks) :
                \A j \in 1 .. Len(chunks[k]) : chunks[k][j] \in Items
            /\ data # << >> => \A k \in 1 .. Len(chunks) : chunks[k] # << >>
            /\ Concat(chunks) = data
        /\ data_type = "dict" =>
            /\ \A k \in 1 .. Len(chunks) :
                /\ \A j \in 1 .. Len(chunks[k]) :
                    chunks[k][j] \in Keys \X Items
                /\ Cardinality(KeysOf(chunks[k])) = Len(chunks[k])
            /\ DisjointKeys
            /\ Concat(chunks) = data

\* An array of three members returned as two chunks, one of them holding two
\* members: a chunk was accumulated and a new one started.
C20_Witness ==
    /\ ChunkReturned
    /\ data_type = "list"
    /\ Len(data) = 3
    /\ Len(chunks) = 2
    /\ \E k \in 1 .. 2 : Len(chunks[k]) = 2

\* Number of array members in the chunks before chunk k.
Offset(k) == Len(Concat(SubSeq(chunks, 1, k - 1)))

\* The serialized token count of chunk k is known and within max_tokens.
WithinBudget(k) ==
    /\ chunk_counts[k] # << >>
    /\ chunk_counts[k][1] <= max_tokens

\* During and after the list loop: the closed chunks followed by the pending
\* chunk are the members seen so far, in order; a member whose own token count
\* exceeds max_tokens is the only member of a closed chunk, so the chunk
\* pending before it was closed ahead of it.
OversizeAlone ==
    data_type = "list" /\ chunk_pc \in { "loop", "returned" } =>
        /\ Len(item_counts) = item_k
        /\ Concat(chunks) \o (IF ChunkReturned THEN << >> ELSE current_chunk)
               = SubSeq(data, 1, item_k)
        /\ \A k \in 1 .. Len(chunks) : \A j \in 1 .. Len(chunks[k]) :
               item_counts[Offset(k) + j] > max_tokens => Len(chunks[k]) = 1
        /\ ~ChunkReturned =>
               \A j \in 1 .. Len(current_chunk) :
                   item_counts[Len(Concat(chunks)) + j] <= max_tokens

\* C21 as stated: for a JSON array and any token counts, every returned chunk
\* has a serialized token count within max_tokens or holds exactly one
\* member, and a member whose own count exceeds max_tokens is a chunk of its
\* own, placed after the chunk accumulated before it.
C21_WithinBudgetOrSingle ==
    /\ ChunkReturned /\ data_type = "list" =>
           \A k \in 1 .. Len(chunks) :
               WithinBudget(k) \/ Len(chunks[k]) = 1
    /\ OversizeAlone

\* C21 amended: the same for a non-empty JSON array. The empty array is
\* returned as the one chunk [], whose count count_tokens("[]") may exceed
\* max_tokens.
C21_NonEmptyWithinBudgetOrSingle ==
    /\ ChunkReturned /\ data_type = "list" /\ data # << >> =>
           \A k \in 1 .. Len(chunks) :
               WithinBudget(k) \/ Len(chunks[k]) = 1
    /\ OversizeAlone

\* Two members accumulated within the budget, then an oversize third member
\* returned as a chunk of its own after them.
C21_Witness ==
    /\ ChunkReturned
    /\ data_type = "list"
    /\ Len(chunks) = 2
    /\ Len(chunks[1]) = 2
    /\ WithinBudget(1)
    /\ Len(chunks[2]) = 1
    /\ item_counts[3] > max_tokens

\* ------------------------------------------------------------- save_chunks
\*
\* save_chunks(chunks, original_path, output_dir) of chunk2tokens.py, one
\* action per iteration of its for loop. A chunk is a (chunk_content, ext)
\* pair; its content is represented by the chunk's number, which is enough to
\* tell which chunk a file holds. File names are character sequences.

Stems == { << "t", "e", "s", "t" >>, << "a", "-", "1" >> }

ExtJson == << ".", "j", "s", "o", "n" >>
ExtTxt == << ".", "t", "x", "t" >>

\* The ext of chunk k: the same for all chunks, as chunk_file gives them, or
\* differing from chunk to chunk.
ExtChoices == { "json", "txt", "mixed" }
ExtOf(choice, k) ==
    CASE choice = "json" -> ExtJson
      [] choice = "txt" -> ExtTxt
      [] OTHER -> IF k % 2 = 1 THEN ExtJson ELSE ExtTxt

\* Bug variant: the index is not padded.
NumDigits_One(n) == 1

\* num_digits = len(str(len(chunks)))
NumDigits(n) == Len(StrOf(n))

\* Entry of save_chunks: output_dir is settled (and created), stem and
\* num_digits are computed, saved_files = [].
InitSave ==
    /\ \E n \in 0 .. MaxChunks, choice \in ExtChoices :
        /\ save_chunks_arg = [k \in 1 .. n |-> << k, ExtOf(choice, k) >>]
        /\ num_digits = NumDigits(n)
    /\ output_dir \in { "parent", "chunks" }
    /\ stem \in Stems
    /\ save_i = 1
    /\ saved_files = << >>
    /\ directory = { }
    /\ save_pc = "loop"
    /\ data = << >>
    /\ data_type = "other"
    /\ max_tokens = 0
    /\ chunks = << >>
    /\ current_chunk = << >>
    /\ current_tokens = 0
    /\ item_k = 0
    /\ chunk_pc = "idle"
    /\ item_counts = << >>
    /\ current_count = << >>
    /\ chunk_counts = << >>
    /\ MergeIdle
    /\ CodecIdle
    /\ SbvIdle
    /\ CliIdle

\* chunk_filename = f"{stem}-{str(i).zfill(num_digits)}{ext}"
chunk_filename ==
    stem \o << "-" >> \o ZeroPad(StrOf(save_i), num_digits)
         \o save_chunks_arg[save_i][2]

\* chunk_path.write_text(chunk_content): the file is created, or replaced
\* when the directory has a file of that name.
WriteText(dir, name, chunk_content) ==
    { f \in directory : ~(f.dir = dir /\ f.name = name) }
        \cup { [dir |-> dir, name |-> name, content |-> chunk_content] }

\* One iteration of the for loop: the file of chunk i is written and its path
\* is appended to saved_files.
SaveChunk ==
    /\ save_pc = "loop"
    /\ save_i <= Len(save_chunks_arg)
    /\ directory' = WriteText(output_dir, chunk_filename,
                              save_chunks_arg[save_i][1])
    /\ saved_files' = Append(saved_files,
                             [dir |-> output_dir, name |-> chunk_filename])
    /\ save_i' = save_i + 1
    /\ UNCHANGED << save_chunks_arg, output_dir, stem, num_digits, save_pc,
                    data, data_type, max_tokens, chunks, current_chunk,
                    current_tokens, item_k, chunk_pc, item_counts,
                    current_count, chunk_counts, merge_vars, codec_vars,
                    sbv_vars, cli_vars >>

\* return saved_files
SaveReturn ==
    /\ save_pc = "loop"
    /\ save_i > Len(save_chunks_arg)
    /\ save_pc' = "returned"
    /\ UNCHANGED << save_chunks_arg, output_dir, stem, num_digits, save_i,
                    saved_files, directory, data, data_type, max_tokens,
                    chunks, current_chunk, current_tokens, item_k, chunk_pc,
                    item_counts, current_count, chunk_counts, merge_vars,
                    codec_vars, sbv_vars, cli_vars >>

NextSave ==
    \/ SaveChunk
    \/ SaveReturn

SpecSave == InitSave /\ [][NextSave]_vars

Saved == save_pc = "returned"

\* The characters of the file names in code point order, which is the order
\* Python compares strings by.
Alphabet ==
    << "-", ".", "0", "1", "2", "3", "4", "5", "6", "7", "8", "9", "a", "e",
       "j", "n", "o", "s", "t", "x" >>

Ord(c) == CHOOSE k \in 1 .. Len(Alphabet) : Alphabet[k] = c

\* a < b for strings.
RECURSIVE LexLess(_, _)
LexLess(a, b) ==
    IF b = << >> THEN FALSE
    ELSE IF a = << >> THEN TRUE
    ELSE IF a[1] = b[1] THEN LexLess(Tail(a), Tail(b))
    ELSE Ord(a[1]) < Ord(b[1])

\* The number of decimal digits of n >= 1.
DecimalDigits(n) == IF n < 10 THEN 1 ELSE IF n < 100 THEN 2 ELSE 3

\* The index field of file name k: what stands between "{stem}-" and the ext
\* of chunk k.
IndexField(k) ==
    SubSeq(saved_files[k].name, Len(stem) + 2,
           Len(saved_files[k].name) - Len(save_chunks_arg[k][2]))

\* C22: when save_chunks returns, one file per chunk has been written; file k
\* holds chunk k and is named {stem}-{index}{ext} with index the decimal k
\* padded with zeros to the number of decimal digits of N (2 chunks give -1
\* and -2, 15 chunks give -01 to -15); the N names are distinct and their
\* lexicographic order is the chunk order.
C22_OneFilePerChunk ==
    Saved =>
        LET N == Len(save_chunks_arg)
        IN  /\ Len(saved_files) = N
            /\ Cardinality(directory) = N
            /\ \A k \in 1 .. N :
                /\ [dir |-> output_dir, name |-> saved_files[k].name,
                    content |-> save_chunks_arg[k][1]] \in directory
                /\ saved_files[k].name =
                       stem \o << "-" >> \o IndexField(k)
                            \o save_chunks_arg[k][2]
                /\ Len(IndexField(k)) = DecimalDigits(N)
                /\ AllDigits(IndexField(k))
                /\ IntOf(IndexField(k)) = k
            /\ \A j, k \in 1 .. N :
                j < k => /\ saved_files[j].name # saved_files[k].name
                         /\ LexLess(saved_files[j].name, saved_files[k].name)
            /\ N = 2 => /\ IndexField(1) = << "1" >>
                        /\ IndexField(2) = << "2" >>
            /\ N = 15 => /\ IndexField(1) = << "0", "1" >>
                         /\ IndexField(15) = << "1", "5" >>

\* Fifteen chunks saved as test-01.txt to test-15.txt.
C22_Witness ==
    /\ Saved
    /\ Len(save_chunks_arg) = 15
    /\ Cardinality(directory) = 15
    /\ saved_files[1].name = << "t", "e", "s", "t", "-", "0", "1" >> \o ExtTxt
    /\ saved_files[15].name = << "t", "e", "s", "t", "-", "1", "5" >> \o ExtTxt

\* ------------------------------------------------- merge_subtitles, groups

\* The input of test_merge_basic: [0, 5000], [5000, 10000], merged with a
\* target of 10 s in milliseconds mode.
TestMergeBasic == << << 0, 5000 >>, << 5000, 10000 >> >>

InitWithTests ==
    \/ Init
    \/ \E lab \in Labelings : Enter(EntriesOf(TestMergeBasic, lab), 10, FALSE)

SpecWithTests == InitWithTests /\ [][Next]_vars

\* Output entry k came out of the group branch.
IsGroup(k) == runs[k].how \in Grouped

\* groupStart + duration of output entry k.
TargetEnd(k) == merged[k].start + duration

\* C23: in every group, emitted or being built, all members last less than
\* min_duration_threshold and every member except the last ends before
\* groupStart + duration; a member that ends at or after groupStart + duration
\* is never in a group still open, and an emitted group was closed by such a
\* member exactly when its last appended member is one, with that member's
\* end as the group's end; [0, 5000], [5000, 10000] with 10 s merges into one
\* entry 0..10000.
C23_GroupClosedAtTarget ==
    /\ \A k \in 1 .. Len(runs) : IsGroup(k) =>
        LET M == RunEntries(k)
        IN  /\ merged[k].start = M[1].start
            /\ \A j \in 1 .. Len(M) : Dur(M[j]) < min_duration_threshold
            /\ \A j \in 1 .. Len(M) - 1 : M[j].end < TargetEnd(k)
            /\ runs[k].how = "complete" <=>
                   (Len(M) >= 2 /\ M[Len(M)].end >= TargetEnd(k))
            /\ runs[k].how = "complete" => merged[k].end = M[Len(M)].end
    /\ pc = "inner" =>
        \A m \in Range(current_group_members) :
            /\ Dur(At(entries, m)) < min_duration_threshold
            /\ At(entries, m).end < current_group_start + duration
    /\ (Done /\ ~use_seconds /\ duration_seconds = 10
             /\ [k \in 1 .. Len(entries) |->
                    << entries[k].start, entries[k].end >>] = TestMergeBasic)
         => /\ Len(merged) = 1
            /\ merged[1].start = 0
            /\ merged[1].end = 10000

\* C23 witness: the two entries of test_merge_basic came out as one group
\* closed by the second entry, whose end is the target end.
C23_Witness ==
    /\ Done
    /\ ~use_seconds
    /\ duration_seconds = 10
    /\ Len(entries) = 2
    /\ entries[2].end = 10000
    /\ Len(merged) = 1
    /\ runs[1].how = "complete"
    /\ merged[1].end = 10000

\* The last input index (0-based) behind output entry k.
LastMember(k) == runs[k].members[Len(runs[k].members)]

\* What is known, in a state, of a group that was closed by a following entry
\* at or above the threshold: the group ends at the end of its last member,
\* the following entry is outside it, and that entry is the next output entry,
\* unchanged, once the outer loop has taken one more step.
StoppedGroups ==
    \A k \in 1 .. Len(runs) : runs[k].how = "stop" =>
        LET n == LastMember(k) + 1
        IN  /\ merged[k].end = At(entries, n - 1).end
            /\ n < Len(entries)
            /\ Dur(At(entries, n)) >= min_duration_threshold
            /\ IF k = Len(runs)
               THEN pc = "outer" /\ i = n
               ELSE /\ runs[k + 1].members = << n >>
                    /\ runs[k + 1].how \in Standalone
                    /\ merged[k + 1].start = At(entries, n).start
                    /\ merged[k + 1].end = At(entries, n).end
                    /\ merged[k + 1].text = At(entries, n).text

\* A group that ends before its start + duration is the last output entry or
\* is followed by a standalone entry lasting at least the threshold.
ShortGroupsFollowed ==
    \A k \in 1 .. Len(runs) :
        (IsGroup(k) /\ merged[k].end < merged[k].start + duration) =>
            \/ k = Len(merged) /\ (Done => runs[k].how = "exhausted")
            \/ /\ k < Len(merged)
               /\ runs[k + 1].how \in Standalone
               /\ Len(runs[k + 1].members) = 1
               /\ Dur(RunEntries(k + 1)[1]) >= min_duration_threshold

\* A step taken while a group is accumulating and the next entry lasts at
\* least the threshold: the group is emitted without that entry, ending where
\* the entry before it ends, and the cursor stays on that entry.
StepBeforeLong ==
    (pc = "inner" /\ i < Len(entries)
         /\ Dur(At(entries, i)) >= min_duration_threshold) =>
        /\ pc' = "outer"
        /\ i' = i
        /\ Len(merged') = Len(merged) + 1
        /\ merged'[Len(merged')].start = current_group_start
        /\ merged'[Len(merged')].end = At(entries, i - 1).end
        /\ runs'[Len(runs')].members = current_group_members
        /\ i \notin Range(current_group_members)

\* C24: when a group is accumulating and the next input entry lasts at least
\* min_duration_threshold, the group is emitted without that entry, with the
\* end of the entry just before it, and that entry is the very next output
\* entry, standalone and unchanged; so a group that ends before its start +
\* duration is the last output entry or is immediately followed by a
\* standalone entry lasting at least min_duration_threshold.
C24_StopLeavesNextAlone ==
    /\ [](StoppedGroups /\ ShortGroupsFollowed)
    /\ [][StepBeforeLong]_vars

\* C24 witness: a group of two entries, shorter than the target, was closed
\* by a third entry at the threshold, which came out right after it.
C24_Witness ==
    /\ Done
    /\ Len(entries) = 3
    /\ Len(runs) = 2
    /\ runs[1].how = "stop"
    /\ runs[1].members = << 0, 1 >>
    /\ merged[1].end < merged[1].start + duration
    /\ runs[2].how = "threshold"
    /\ runs[2].members = << 2 >>

\* ------------------------- merge_subtitles without its first pass-through
\*
\* merge_subtitles with the branch "if entry_duration >= duration" taken out
\* of the outer loop: the threshold branch is the first test, a group is
\* started when it fails, the inner loop is the one of merge_subtitles. The
\* caller runs merge_subtitles on an input (call 1) and then the function
\* without the first branch on the same input (call 2).

\* The second call, on the input of the first.
MergeWithoutFirstBranch ==
    /\ pc = "done"
    /\ call = 1
    /\ LET l == Locals(entries, duration_seconds, use_seconds)
       IN  /\ duration' = l.duration
           /\ min_duration_threshold' = l.min_duration_threshold
           /\ merged' = l.merged
           /\ i' = l.i
           /\ current_group_texts' = l.current_group_texts
           /\ current_group_start' = l.current_group_start
           /\ target_end_time' = l.target_end_time
           /\ pc' = l.pc
           /\ current_group_members' = l.current_group_members
           /\ runs' = l.runs
    /\ call' = 2
    /\ first_entries' = entries
    /\ first_merged' = merged
    /\ UNCHANGED << entries, duration_seconds, use_seconds, codec_vars,
                    sbv_vars, cli_vars, chunk_vars >>

\* Outer loop of the second call, entry_duration >= min_duration_threshold.
PassThresholdFirst ==
    /\ call = 2
    /\ pc = "outer"
    /\ i < Len(entries)
    /\ EntryAtThreshold
    /\ Emit(entry.start, entry.end, entry.text, << i >>, "threshold")
    /\ i' = i + 1
    /\ UNCHANGED << args, group, pc >>

\* Outer loop of the second call, otherwise: a group is started.
StartGroupBelowThreshold ==
    /\ call = 2
    /\ pc = "outer"
    /\ i < Len(entries)
    /\ ~EntryAtThreshold
    /\ current_group_texts' = << entry.text >>
    /\ current_group_start' = entry.start
    /\ target_end_time' = entry.start + duration
    /\ current_group_members' = << i >>
    /\ i' = i + 1
    /\ pc' = "inner"
    /\ UNCHANGED << args, merged, runs >>

\* The first call is merge_subtitles.
FirstCall == call = 1 /\ Next

\* The inner loop and the return of the second call are those of
\* merge_subtitles.
SecondCallRest ==
    /\ call = 2
    /\ \/ InnerStopLong
       \/ InnerComplete
       \/ InnerAppend
       \/ InnerExhausted
       \/ Return

NextWithout ==
    \/ FirstCall
    \/ MergeWithoutFirstBranch
    \/ PassThresholdFirst
    \/ StartGroupBelowThreshold
    \/ SecondCallRest

\* The inputs of the merge specification and those around the threshold and
\* the target, for targets up to MaxTarget.
InitWithout == Init \/ InitThreshold

SpecWithout == InitWithout /\ [][NextWithout]_vars

\* C25: for every positive target in both unit modes (the calls made here
\* take every target of 1 to MaxTarget seconds in both modes)
\* min_duration_threshold is at least 1 and at most the scaled duration, so an entry lasting at
\* least the target also lasts at least the threshold, and merge_subtitles
\* without its first branch returns, on every input, the list that
\* merge_subtitles returns.
C25_FirstBranchRedundant ==
    /\ min_duration_threshold = MinDurationThreshold(duration_seconds, use_seconds)
    /\ duration = Duration(duration_seconds, use_seconds)
    /\ min_duration_threshold >= 1
    /\ min_duration_threshold <= duration
    /\ (pc = "outer" /\ i < Len(entries) /\ EntryLasts) => EntryAtThreshold
    /\ (Done /\ call = 2) => merged = first_merged

\* C25 witness: the second call has returned the list of the first on an
\* input in which an entry lasting at least the target followed a group; the
\* second call emitted that entry from its threshold branch.
C25_Witness ==
    /\ Done
    /\ call = 2
    /\ merged = first_merged
    /\ Len(runs) >= 2
    /\ runs[1].how \in Grouped
    /\ runs[2].how = "threshold"
    /\ Dur(RunEntries(2)[1]) >= duration
====
